---- MODULE Spec2Model ----
(***************************************************************************)
(* Pool-state synchronization engine of the arbitrage bot: the DexManager  *)
(* registry (src/dex/manager.rs), the per-DEX adapter (src/dex/cetus.rs),   *)
(* the StateManager facade (src/sync/state.rs) and the SyncOrchestrator    *)
(* (src/sync/synchronizer.rs).                                             *)
(***************************************************************************)
EXTENDS Integers, Sequences, FiniteSets, TLC

\* ------------------------------------------------------------------------
\* Bounds of the model
\* ------------------------------------------------------------------------
\* The machine word (usize) is scaled down to UsizeMod values 0..UsizeMod-1.
UsizeMod == 8
\* Largest value of the millisecond clock now().
MaxTime == 1
\* Longest pool list passed to register_pools.
MaxListLen == 3
\* Longest state list passed to update_pool_states / update_multiple_pools.
MaxStates == 1
\* The staleness threshold state_ttl the manager is configured with.
StateTtl == 0
\* Largest chunk size batch_size the orchestrator is configured with.
MaxBatchSize == 2
\* Largest attempt budget max_retries the fetcher is configured with.
MaxRetries == 3
\* Most periodic loop tasks the runtime carries at once.
MaxLoops == 2

\* ------------------------------------------------------------------------
\* Identity primitives
\* ------------------------------------------------------------------------
\* DexId variants that get an adapter in the model.
DexIds == {"Cetus", "Turbos"}

\* PoolId = ChainAddress: one Sui object id and one Aptos address.
PoolIds == {"sui1", "aptos1"}

\* The values max_pools_per_dex is configured with: a small ceiling and the
\* default u64::MAX as usize.
MaxPoolsChoices == {1, UsizeMod - 1}

\* HashMap::insert
Put(f, k, v) == [x \in (DOMAIN f) \cup {k} |-> IF x = k THEN v ELSE f[x]]

EmptyMap == [x \in {} |-> 0]

\* SeqOf(S, n): all sequences over S of length 0..n
SeqOf(S, n) == UNION {[1..k -> S] : k \in 0..n}

Range(s) == {s[i] : i \in DOMAIN s}

VARIABLES
    dexes,              \* DexManager.dexes: DexId -> adapter.pool_states (PoolId -> block_timestamp)
    pool_to_dex,        \* DexManager.pool_to_dex
    monitored_pools,    \* DexManager.monitored_pools
    max_pools_per_dex,  \* DexManager.max_pools_per_dex
    state_ttl,          \* DexManager.state_ttl
    last_sync_time,     \* DexManager.last_sync_time
    overflow_checks,    \* whether the build panics on integer overflow (debug) or wraps (release)
    clock,              \* the wall clock read by now()
    last,               \* the most recent call or step: operation, arguments, result
    batch_size,         \* SyncOrchestrator.config.batch_size
    sync_pc,            \* position of the foreground sync call
    sync_kind,          \* which entry point started it: "all" or "stale"
    sync_pool_ids,           \* sync_pools_batch: the target slice
    batch_idx,          \* sync_pools_batch: index of the current chunk
    fetched_states,     \* sync_pools_batch: states collected from the chunk's fetch tasks
    success_count,      \* sync_pools_batch: the running count it returns
    fetch_calls,        \* fetch tasks spawned by the current sync call
    fetched_ok,         \* fetch tasks of the current sync call that returned a state
    delay_count,        \* inter-chunk sleeps of the current sync call
    health_status,      \* SyncState.health_status
    is_running,         \* SyncState.is_running
    lock,               \* StateManager.dex_manager: the RwLock's writer and readers
    max_retries,        \* the attempt budget of fetch_with_retry
    sp_pc,              \* position of the task calling sync_pool
    sp_pool,            \* sync_pool: its pool_id argument
    sp_attempts,        \* fetch_with_retry: fetch attempts made so far
    sp_client,      \* the RPC client of that call: how many of its calls fail
    sp_state,           \* sync_pool: the fetched state
    sp_res,             \* sync_pool: its result
    ev_pc,              \* position of the task calling StateManager::update_pool
    ev_state,           \* update_pool: its state argument
    ev_res,             \* update_pool: its result
    loop_pc,            \* position of each periodic loop task
    loop_targets,       \* run_periodic_sync_loop: stale_pools of the cycle
    loop_idx,           \* its sync_pools_batch: index of the current chunk
    loop_fetched,       \* its sync_pools_batch: states collected from the chunk
    loop_count,         \* its sync_pools_batch: the running count
    fetch_handles,      \* sync_pools_batch: the spawned fetch tasks of the chunk, pending or returned
    parsers,            \* PoolParserRegistry.parsers
    lib_in,             \* the arguments of the library call in progress
    lib_out             \* the value that call returned

registry == <<dexes, pool_to_dex, monitored_pools, max_pools_per_dex, state_ttl,
              last_sync_time, overflow_checks>>

sync == <<batch_size, sync_pc, sync_kind, sync_pool_ids, batch_idx, fetched_states,
          success_count, fetch_calls, fetched_ok, delay_count>>

retry == <<max_retries, sp_pc, sp_pool, sp_attempts, sp_client, sp_state, sp_res>>

event == <<ev_pc, ev_state, ev_res>>

periodic == <<is_running, loop_pc, loop_targets, loop_idx, loop_fetched, loop_count>>

tasks == <<retry, event, periodic, lock>>

library == <<fetch_handles, parsers, lib_in, lib_out>>

vars == <<dexes, pool_to_dex, monitored_pools, max_pools_per_dex, state_ttl,
          last_sync_time, overflow_checks, clock, last, batch_size, sync_pc,
          sync_kind, sync_pool_ids, batch_idx, fetched_states, success_count,
          fetch_calls, fetched_ok, delay_count, health_status, is_running, lock, max_retries, sp_pc,
          sp_pool, sp_attempts, sp_client, sp_state, sp_res, ev_pc, ev_state,
          ev_res, loop_pc, loop_targets, loop_idx, loop_fetched, loop_count,
          fetch_handles, parsers, lib_in, lib_out>>

\* common.rs now()
now == clock

\* The slots of periodic loop tasks.
Loops == 1..MaxLoops

\* The tasks that take the registry lock: the sync_pool caller, the
\* update_pool caller and the periodic loops.
TaskId(kind, i) == <<kind, i>>

\* RwLock<DexManager> with no guard alive.
Unlocked == [writers |-> {}, readers |-> {}]

\* An RPC client is described by the calls it fails: all of them, or its
\* first fail_first ones.
Client(always, fail_first) == [always |-> always, fail_first |-> fail_first]

Reliable == Client(FALSE, 0)

Clients == {Client(FALSE, k) : k \in 0..MaxRetries} \cup {Client(TRUE, 0)}

Call(op, dex, pools, res, count) ==
    [op |-> op, dex |-> dex, pools |-> pools, res |-> res, count |-> count]

IsErr(res) == res \in {"DexAlreadyRegistered", "DexNotRegistered", "LimitReached", "NotFound"}

\* ------------------------------------------------------------------------
\* DexManager
\* ------------------------------------------------------------------------
\* DexManager::new / with_config
InitManager ==
    /\ dexes = EmptyMap
    /\ pool_to_dex = EmptyMap
    /\ monitored_pools = {}
    /\ max_pools_per_dex \in MaxPoolsChoices
    /\ state_ttl = StateTtl
    /\ last_sync_time = 0
    /\ overflow_checks \in BOOLEAN
    /\ clock = 0
    /\ last = Call("new", "none", <<>>, "Ok", 0)

\* SyncOrchestrator::new, no sync call in progress
InitOrchestrator ==
    /\ sync_pc = "idle"
    /\ sync_kind = "none"
    /\ sync_pool_ids = <<>>
    /\ batch_idx = 0
    /\ fetched_states = <<>>
    /\ success_count = 0
    /\ fetch_calls = 0
    /\ fetched_ok = 0
    /\ delay_count = 0
    /\ health_status = TRUE
    /\ is_running = FALSE
    /\ lock = Unlocked
    /\ sp_pc = "idle"
    /\ sp_pool = "none"
    /\ sp_attempts = 0
    /\ sp_client = Reliable
    /\ sp_state = <<>>
    /\ sp_res = "none"
    /\ ev_pc = "idle"
    /\ ev_state = <<>>
    /\ ev_res = "none"
    /\ loop_pc = [i \in Loops |-> "none"]
    /\ loop_targets = [i \in Loops |-> <<>>]
    /\ loop_idx = [i \in Loops |-> 0]
    /\ loop_fetched = [i \in Loops |-> <<>>]
    /\ loop_count = [i \in Loops |-> 0]
    /\ fetch_handles = <<>>
    /\ parsers = <<>>

\* No library call has been made.
NoCall ==
    /\ lib_in = [op |-> "none"]
    /\ lib_out = [res |-> "none"]

\* The registry fields an operation may change, as one value.
Mgr == [dexes |-> dexes, pool_to_dex |-> pool_to_dex,
        monitored_pools |-> monitored_pools, last_sync_time |-> last_sync_time]

Outcome(m, res) == [m |-> m, res |-> res]

\* CetusDexState::from_config: the adapter starts with pool_states empty.
from_config == EmptyMap

\* register_dex as a plain HashMap::insert, without the contains_key check.
register_dex_overwrite(m, dex_id, adapter) ==
    Outcome([m EXCEPT !.dexes = Put(m.dexes, dex_id, adapter)], "Ok")

\* DexManager::register_dex
register_dex(m, dex_id, adapter) ==
    IF dex_id \in DOMAIN m.dexes
    THEN Outcome(m, "DexAlreadyRegistered")
    ELSE Outcome([m EXCEPT !.dexes = Put(m.dexes, dex_id, adapter)], "Ok")

\* self.max_pools_per_dex * self.dexes.len() in usize arithmetic
CeilingOverflows(m) == max_pools_per_dex * Cardinality(DOMAIN m.dexes) >= UsizeMod

Ceiling(m) == (max_pools_per_dex * Cardinality(DOMAIN m.dexes)) % UsizeMod

\* register_pool comparing with > instead of >=.
register_pool_offbyone(m, dex_id, pool_id) ==
    IF dex_id \notin DOMAIN m.dexes
    THEN Outcome(m, "DexNotRegistered")
    ELSE IF CeilingOverflows(m) /\ overflow_checks
    THEN Outcome(m, "Panic")
    ELSE IF Cardinality(m.monitored_pools) > Ceiling(m)
    THEN Outcome(m, "LimitReached")
    ELSE Outcome([m EXCEPT !.pool_to_dex = Put(m.pool_to_dex, pool_id, dex_id),
                           !.monitored_pools = m.monitored_pools \cup {pool_id}],
                 "Ok")

\* register_pool that forgets the insert into monitored_pools.
register_pool_nomonitor(m, dex_id, pool_id) ==
    IF dex_id \notin DOMAIN m.dexes
    THEN Outcome(m, "DexNotRegistered")
    ELSE IF CeilingOverflows(m) /\ overflow_checks
    THEN Outcome(m, "Panic")
    ELSE IF Cardinality(m.monitored_pools) >= Ceiling(m)
    THEN Outcome(m, "LimitReached")
    ELSE Outcome([m EXCEPT !.pool_to_dex = Put(m.pool_to_dex, pool_id, dex_id)],
                 "Ok")

\* register_pool with entry().or_insert(): an existing mapping is kept.
register_pool_keepfirst(m, dex_id, pool_id) ==
    IF dex_id \notin DOMAIN m.dexes
    THEN Outcome(m, "DexNotRegistered")
    ELSE IF CeilingOverflows(m) /\ overflow_checks
    THEN Outcome(m, "Panic")
    ELSE IF Cardinality(m.monitored_pools) >= Ceiling(m)
    THEN Outcome(m, "LimitReached")
    ELSE Outcome([m EXCEPT !.pool_to_dex = IF pool_id \in DOMAIN m.pool_to_dex
                                           THEN m.pool_to_dex
                                           ELSE Put(m.pool_to_dex, pool_id, dex_id),
                           !.monitored_pools = m.monitored_pools \cup {pool_id}],
                 "Ok")

\* register_pool without the check that the DEX is registered.
register_pool_nodexcheck(m, dex_id, pool_id) ==
    IF CeilingOverflows(m) /\ overflow_checks
    THEN Outcome(m, "Panic")
    ELSE IF Cardinality(m.monitored_pools) >= Ceiling(m)
    THEN Outcome(m, "LimitReached")
    ELSE Outcome([m EXCEPT !.pool_to_dex = Put(m.pool_to_dex, pool_id, dex_id),
                           !.monitored_pools = m.monitored_pools \cup {pool_id}],
                 "Ok")

\* DexManager::register_pool
register_pool(m, dex_id, pool_id) ==
    IF dex_id \notin DOMAIN m.dexes
    THEN Outcome(m, "DexNotRegistered")
    ELSE IF CeilingOverflows(m) /\ overflow_checks
    THEN Outcome(m, "Panic")
    ELSE IF Cardinality(m.monitored_pools) >= Ceiling(m)
    THEN Outcome(m, "LimitReached")
    ELSE Outcome([m EXCEPT !.pool_to_dex = Put(m.pool_to_dex, pool_id, dex_id),
                           !.monitored_pools = m.monitored_pools \cup {pool_id}],
                 "Ok")

\* The loop of DexManager::register_pools: register_pool for each pool in
\* order, `?` on the first failure.
RECURSIVE register_each(_, _, _)
register_each(m, dex_id, pool_ids) ==
    IF pool_ids = <<>>
    THEN Outcome(m, "Ok")
    ELSE LET r == register_pool(m, dex_id, Head(pool_ids))
         IN  IF r.res # "Ok"
             THEN r
             ELSE register_each(r.m, dex_id, Tail(pool_ids))

\* register_pools that rolls the registry back when a pool fails.
register_pools_atomic(m, dex_id, pool_ids) ==
    LET r == register_each(m, dex_id, pool_ids)
    IN  IF r.res # "Ok" THEN Outcome(m, r.res) ELSE r

\* DexManager::register_pools
register_pools(m, dex_id, pool_ids) == register_each(m, dex_id, pool_ids)

\* DexManager::get_monitored_pools
get_monitored_pools(m) == m.monitored_pools

\* DexManager::get_stale_pools
get_stale_pools(m) == get_monitored_pools(m)

\* DexManager::get_monitored_dex_by_pool_id (Some(d) as {d}, None as {})
get_monitored_dex_by_pool_id(m, pool_id) ==
    IF pool_id \in DOMAIN m.pool_to_dex THEN {m.pool_to_dex[pool_id]} ELSE {}

\* A PoolState, reduced to the fields the registry reads.
PoolState(pool_id, block_timestamp) ==
    [pool_id |-> pool_id, block_timestamp |-> block_timestamp]

\* CetusDexState::update_pool_state
\* update_pool_state that keeps nothing but the state it is given
adapter_update_pool_state_replace(adapter, pool_state) ==
    Put(EmptyMap, pool_state.pool_id, pool_state.block_timestamp)

adapter_update_pool_state(adapter, pool_state) ==
    Put(adapter, pool_state.pool_id, pool_state.block_timestamp)

\* update_pool_state that registers an unknown pool under a registered DEX
\* instead of failing.
update_pool_state_implicit(m, pool_state) ==
    LET owner == get_monitored_dex_by_pool_id(m, pool_state.pool_id)
    IN  IF owner = {} /\ DOMAIN m.dexes = {}
        THEN Outcome(m, "NotFound")
        ELSE LET dex_id == IF owner = {}
                           THEN CHOOSE d \in DOMAIN m.dexes : TRUE
                           ELSE CHOOSE d \in owner : TRUE
             IN  Outcome([m EXCEPT
                            !.pool_to_dex = Put(m.pool_to_dex, pool_state.pool_id, dex_id),
                            !.monitored_pools = m.monitored_pools \cup {pool_state.pool_id},
                            !.dexes = Put(m.dexes, dex_id,
                                          adapter_update_pool_state(m.dexes[dex_id], pool_state)),
                            !.last_sync_time = now],
                         "Ok")

\* update_pool_state that refreshes last_sync_time before the lookups.
update_pool_state_touch(m, pool_state) ==
    LET owner == get_monitored_dex_by_pool_id(m, pool_state.pool_id)
    IN  IF owner = {}
        THEN Outcome([m EXCEPT !.last_sync_time = now], "NotFound")
        ELSE LET dex_id == CHOOSE d \in owner : TRUE
             IN  IF dex_id \notin DOMAIN m.dexes
                 THEN Outcome([m EXCEPT !.last_sync_time = now], "NotFound")
                 ELSE Outcome([m EXCEPT
                                 !.dexes = Put(m.dexes, dex_id,
                                               adapter_update_pool_state(m.dexes[dex_id], pool_state)),
                                 !.last_sync_time = now],
                              "Ok")

\* DexManager::update_pool_state
update_pool_state(m, pool_state) ==
    LET owner == get_monitored_dex_by_pool_id(m, pool_state.pool_id)
    IN  IF owner = {}
        THEN Outcome(m, "NotFound")
        ELSE LET dex_id == CHOOSE d \in owner : TRUE
             IN  IF dex_id \notin DOMAIN m.dexes
                 THEN Outcome(m, "NotFound")
                 ELSE Outcome([m EXCEPT
                                 !.dexes = Put(m.dexes, dex_id,
                                               adapter_update_pool_state(m.dexes[dex_id], pool_state)),
                                 !.last_sync_time = now],
                              "Ok")

\* The loop of DexManager::update_pool_states and of
\* StateManager::update_multiple_pools: update each state in order and count
\* the successes; a failure is skipped.
RECURSIVE update_each(_, _, _)
update_each(m, pool_states, count) ==
    IF pool_states = <<>>
    THEN [m |-> m, res |-> "Ok", count |-> count]
    ELSE LET r == update_pool_state(m, Head(pool_states))
         IN  update_each(r.m, Tail(pool_states),
                         IF r.res = "Ok" THEN count + 1 ELSE count)

\* DexManager::update_pool_states
update_pool_states(m, pool_states) ==
    LET r == update_each(m, pool_states, 0)
    IN  IF r.count > 0
        THEN [r EXCEPT !.m.last_sync_time = now]
        ELSE r

\* StateManager::update_pool: update_pool_state under the write lock
update_pool(m, pool_state) == update_pool_state(m, pool_state)

\* update_multiple_pools leaving the loop after the first state
update_multiple_pools_first(m, pool_states) ==
    update_each(m, IF pool_states = <<>> THEN <<>> ELSE <<Head(pool_states)>>, 0)

\* StateManager::update_multiple_pools: the loop under one write lock
update_multiple_pools(m, pool_states) == update_each(m, pool_states, 0)

\* ------------------------------------------------------------------------
\* Calls on the registry
\* ------------------------------------------------------------------------
Commit(m) ==
    /\ dexes' = m.dexes
    /\ pool_to_dex' = m.pool_to_dex
    /\ monitored_pools' = m.monitored_pools
    /\ last_sync_time' = m.last_sync_time
    /\ UNCHANGED <<max_pools_per_dex, state_ttl, overflow_checks>>

PoolStates == {PoolState(p, t) : p \in PoolIds, t \in 0..clock}

PoolsOf(pool_states) == [i \in DOMAIN pool_states |-> pool_states[i].pool_id]

RegisterDex ==
    /\ \E dex_id \in DexIds :
          LET r == register_dex(Mgr, dex_id, from_config)
          IN  /\ Commit(r.m)
              /\ last' = Call("register_dex", dex_id, <<>>, r.res, 0)
    /\ UNCHANGED <<clock, sync, tasks, library, health_status>>

RegisterPool ==
    /\ \E dex_id \in DexIds, pool_id \in PoolIds :
          LET r == register_pool(Mgr, dex_id, pool_id)
          IN  /\ Commit(r.m)
              /\ last' = Call("register_pool", dex_id, <<pool_id>>, r.res, 0)
    /\ UNCHANGED <<clock, sync, tasks, library, health_status>>

RegisterPools ==
    /\ \E dex_id \in DexIds, pool_ids \in SeqOf(PoolIds, MaxListLen) :
          LET r == register_pools(Mgr, dex_id, pool_ids)
          IN  /\ Commit(r.m)
              /\ last' = Call("register_pools", dex_id, pool_ids, r.res, 0)
    /\ UNCHANGED <<clock, sync, tasks, library, health_status>>

UpdatePoolState ==
    /\ \E pool_state \in PoolStates :
          LET r == update_pool_state(Mgr, pool_state)
          IN  /\ Commit(r.m)
              /\ last' = Call("update_pool_state", "none", <<pool_state.pool_id>>, r.res, 0)
    /\ UNCHANGED <<clock, sync, tasks, library, health_status>>

UpdatePoolStates ==
    /\ \E pool_states \in SeqOf(PoolStates, MaxStates) :
          LET r == update_pool_states(Mgr, pool_states)
          IN  /\ Commit(r.m)
              /\ last' = Call("update_pool_states", "none", <<>>, r.res, r.count)
    /\ UNCHANGED <<clock, sync, tasks, library, health_status>>

UpdatePool ==
    /\ \E pool_state \in PoolStates :
          LET r == update_pool(Mgr, pool_state)
          IN  /\ Commit(r.m)
              /\ last' = Call("update_pool", "none", <<pool_state.pool_id>>, r.res, 0)
    /\ UNCHANGED <<clock, sync, tasks, library, health_status>>

UpdateMultiplePools ==
    /\ \E pool_states \in SeqOf(PoolStates, MaxStates) :
          LET r == update_multiple_pools(Mgr, pool_states)
          IN  /\ Commit(r.m)
              /\ last' = Call("update_multiple_pools", "none", <<>>, r.res, r.count)
    /\ UNCHANGED <<clock, sync, tasks, library, health_status>>

\* Advance of the wall clock.
Tick ==
    /\ clock < MaxTime
    /\ clock' = clock + 1
    /\ last' = Call("tick", "none", <<>>, "Ok", 0)
    /\ UNCHANGED <<registry, sync, tasks, library, health_status>>

\* ------------------------------------------------------------------------
\* SyncOrchestrator: one foreground sync call
\* ------------------------------------------------------------------------
\* The orders in which a HashSet may be collected into a Vec.
Orders(S) == {s \in [1..Cardinality(S) -> S] : Range(s) = S}

Min(a, b) == IF a < b THEN a ELSE b

\* sync_pool_ids.chunks(batch_size): the chunk with index idx
chunks(ids, size, idx) == SubSeq(ids, idx * size + 1, Min((idx + 1) * size, Len(ids)))

\* (total_pools + batch_size - 1) / batch_size in usize arithmetic: the sum
\* wraps in a build without overflow checks
total_batches(total_pools, size) == ((total_pools + size - 1) % UsizeMod) \div size

\* Whether that expression, or the - 1 that follows it, overflows
batches_overflow(total_pools, size) ==
    \/ total_pools + size - 1 >= UsizeMod
    \/ total_batches(total_pools, size) = 0

\* The condition of the sleep with every chunk followed by one
delay_due_always(idx, total_pools, size) == TRUE

\* batch_idx < (total_pools + batch_size - 1) / batch_size - 1
delay_due(idx, total_pools, size) ==
    idx < (total_batches(total_pools, size) - 1) % UsizeMod

\* Whether chunks() yields a chunk after the one with index idx
has_next_chunk(idx, total_pools, size) == (idx + 1) * size < total_pools

\* The result of one spawned fetch task: an error, or a state carrying the
\* block timestamp the chain reported.
FetchErr == -1

FetchResults(chunk) == [1..Len(chunk) -> {FetchErr} \cup (0..clock)]

\* The number of fetch tasks that returned a state.
ok_results(results) == Cardinality({i \in DOMAIN results : results[i] # FetchErr})

\* "Collect results" giving up at the first failed fetch task
RECURSIVE collect_results_failfast(_, _)
collect_results_failfast(chunk, results) ==
    IF chunk = <<>> \/ Head(results) = FetchErr
    THEN <<>>
    ELSE <<PoolState(Head(chunk), Head(results))>>
             \o collect_results_failfast(Tail(chunk), Tail(results))

\* sync_pools_batch, "Collect results": the Ok(Ok(state)) results in order
RECURSIVE collect_results(_, _)
collect_results(chunk, results) ==
    IF chunk = <<>>
    THEN <<>>
    ELSE LET rest == collect_results(Tail(chunk), Tail(results))
         IN  IF Head(results) = FetchErr
             THEN rest
             ELSE <<PoolState(Head(chunk), Head(results))>> \o rest

EnterBatch(kind, targets) ==
    /\ sync_kind' = kind
    /\ sync_pool_ids' = targets
    /\ batch_idx' = 0
    /\ fetched_states' = <<>>
    /\ success_count' = 0
    /\ fetch_calls' = 0
    /\ fetched_ok' = 0
    /\ delay_count' = 0
    /\ sync_pc' = IF targets = <<>> THEN "done" ELSE "fetch"
    /\ last' = Call(kind, "none", targets, "Started", 0)
    /\ UNCHANGED <<tasks, library, health_status, registry, clock, batch_size>>

\* SyncOrchestrator::sync_all_pools up to the first chunk of sync_pools_batch
SyncAllPools ==
    /\ sync_pc = "idle"
    /\ \E targets \in Orders(get_monitored_pools(Mgr)) :
          EnterBatch("sync_all_pools", targets)

\* SyncOrchestrator::sync_stale_pools up to the first chunk of
\* sync_pools_batch, or to its early return
SyncStalePools ==
    /\ sync_pc = "idle"
    /\ \E stale_pools \in Orders(get_stale_pools(Mgr)) :
          EnterBatch("sync_stale_pools", stale_pools)

\* SyncOrchestrator::initialize up to the first chunk of sync_pools_batch, or
\* to its early return
Initialize ==
    /\ sync_pc = "idle"
    /\ \E pools_to_sync \in Orders(get_monitored_pools(Mgr)) :
          EnterBatch("initialize", pools_to_sync)

\* initialize: health decided by any success, as the periodic loop does
initial_health_any(count, total) == count > 0

\* initialize: the health flag after the initial pass
initial_health(count, total) == count = total

\* A spawned fetch task that has not returned
InFlight == -2

\* The build checks arithmetic and the batch count of this call overflows
chunk_panics == overflow_checks /\ batches_overflow(Len(sync_pool_ids), batch_size)

\* sync_pools_batch: spawn one fetch task per pool of the chunk and await all
FetchChunk ==
    /\ sync_pc = "fetch"
    /\ ~chunk_panics
    /\ LET chunk == chunks(sync_pool_ids, batch_size, batch_idx)
       IN  /\ \E results \in FetchResults(chunk) :
                 /\ fetched_states' = collect_results(chunk, results)
                 /\ fetched_ok' = fetched_ok + ok_results(results)
                 /\ last' = Call("fetch_chunk", "none", chunk, "Ok", ok_results(results))
           /\ fetch_calls' = fetch_calls + Len(chunk)
    /\ sync_pc' = "update"
    /\ UNCHANGED <<tasks, library, health_status, registry, clock, batch_size, sync_kind, sync_pool_ids, batch_idx,
                   success_count, delay_count>>

\* sync_pools_batch: the batch count logged at the head of a chunk overflows
\* and the call panics
ChunkPanic ==
    /\ sync_pc = "fetch"
    /\ chunk_panics
    /\ sync_pc' = "panicked"
    /\ last' = Call("fetch_chunk", "none", <<>>, "Panic", 0)
    /\ UNCHANGED <<tasks, library, health_status, registry, clock, batch_size, sync_kind, sync_pool_ids, batch_idx,
                   fetched_states, success_count, fetch_calls, fetched_ok, delay_count>>

\* sync_pools_batch: spawn one fetch task per pool of the chunk
SpawnFetches ==
    /\ sync_pc = "fetch"
    /\ ~chunk_panics
    /\ LET chunk == chunks(sync_pool_ids, batch_size, batch_idx)
       IN  /\ fetch_handles' = [i \in DOMAIN chunk |-> InFlight]
           /\ fetch_calls' = fetch_calls + Len(chunk)
           /\ last' = Call("spawn_fetches", "none", chunk, "Ok", 0)
    /\ sync_pc' = "await"
    /\ UNCHANGED <<tasks, parsers, lib_in, lib_out, health_status, registry, clock, batch_size, sync_kind,
                   sync_pool_ids, batch_idx, fetched_states, success_count, fetched_ok, delay_count>>

\* A spawned fetch task returns, in any order with the others
FetchTaskDone ==
    /\ sync_pc = "await"
    /\ \E i \in DOMAIN fetch_handles, result \in {FetchErr} \cup (0..clock) :
          /\ fetch_handles[i] = InFlight
          /\ fetch_handles' = [fetch_handles EXCEPT ![i] = result]
          /\ last' = Call("fetch_task", "none", <<sync_pool_ids[batch_idx * batch_size + i]>>,
                          IF result = FetchErr THEN "Err" ELSE "Ok", 0)
    /\ UNCHANGED <<tasks, parsers, lib_in, lib_out, health_status, registry, clock, sync>>

\* "Collect results" going on once the first task has returned
all_returned_first(handles) == handles[1] # InFlight

\* sync_pools_batch, "Collect results": handle.await of every handle in turn
all_returned(handles) == \A i \in DOMAIN handles : handles[i] # InFlight

\* sync_pools_batch: every handle has been awaited
CollectResults ==
    /\ sync_pc = "await"
    /\ all_returned(fetch_handles)
    /\ LET chunk == chunks(sync_pool_ids, batch_size, batch_idx)
       IN  /\ fetched_states' = collect_results(chunk, fetch_handles)
           /\ fetched_ok' = fetched_ok + ok_results(fetch_handles)
           /\ last' = Call("fetch_chunk", "none", chunk, "Ok", ok_results(fetch_handles))
    /\ sync_pc' = "update"
    /\ UNCHANGED <<tasks, library, health_status, registry, clock, batch_size, sync_kind, sync_pool_ids, batch_idx,
                   success_count, fetch_calls, delay_count>>

\* sync_pools_batch: write the chunk's fetched states to the registry
UpdateChunk ==
    /\ sync_pc = "update"
    /\ LET r == IF fetched_states # <<>>
                THEN update_multiple_pools(Mgr, fetched_states)
                ELSE [m |-> Mgr, res |-> "Ok", count |-> 0]
       IN  /\ Commit(r.m)
           /\ success_count' = success_count + r.count
           /\ last' = Call("update_chunk", "none", <<>>, r.res, r.count)
    /\ LET more == has_next_chunk(batch_idx, Len(sync_pool_ids), batch_size)
       IN  IF delay_due(batch_idx, Len(sync_pool_ids), batch_size)
           THEN sync_pc' = "delay" /\ batch_idx' = batch_idx
           ELSE /\ sync_pc' = IF more THEN "fetch" ELSE "done"
                /\ batch_idx' = IF more THEN batch_idx + 1 ELSE batch_idx
    /\ UNCHANGED <<tasks, library, health_status, clock, batch_size, sync_kind, sync_pool_ids,
                   fetched_states, fetch_calls, fetched_ok, delay_count>>

\* sync_pools_batch: the sleep between two chunks
InterBatchDelay ==
    /\ sync_pc = "delay"
    /\ LET more == has_next_chunk(batch_idx, Len(sync_pool_ids), batch_size)
       IN  /\ sync_pc' = IF more THEN "fetch" ELSE "done"
           /\ batch_idx' = IF more THEN batch_idx + 1 ELSE batch_idx
    /\ delay_count' = delay_count + 1
    /\ last' = Call("delay", "none", <<>>, "Ok", 0)
    /\ UNCHANGED <<tasks, library, health_status, registry, clock, batch_size, sync_kind, sync_pool_ids,
                   fetched_states, success_count, fetch_calls, fetched_ok>>

\* sync_pools_batch failing when a fetch of the call failed
sync_result_strict(count, fetched, total) == IF fetched < total THEN "Sync" ELSE "Ok"

\* The value sync_pools_batch ends with is Ok(success_count), whatever the
\* fetch tasks and the registry returned
sync_result(count, fetched, total) == "Ok"

\* sync_pools_batch returns Ok(success_count) to the entry point, which
\* returns to its caller; initialize sets the health flag first, unless it
\* returned early on an empty target list
SyncReturn ==
    /\ sync_pc = "done"
    /\ sync_pc' = "idle"
    /\ last' = Call(sync_kind, "none", sync_pool_ids,
                    sync_result(success_count, fetched_ok, Len(sync_pool_ids)), success_count)
    /\ health_status' = IF sync_kind = "initialize" /\ sync_pool_ids # <<>>
                        THEN initial_health(success_count, Len(sync_pool_ids))
                        ELSE health_status
    /\ sync_kind' = "none"
    /\ sync_pool_ids' = <<>>
    /\ batch_idx' = 0
    /\ fetched_states' = <<>>
    /\ success_count' = 0
    /\ fetch_calls' = 0
    /\ fetched_ok' = 0
    /\ delay_count' = 0
    /\ fetch_handles' = <<>>
    /\ UNCHANGED <<tasks, parsers, lib_in, lib_out, registry, clock, batch_size>>

\* ------------------------------------------------------------------------
\* The registry lock
\* ------------------------------------------------------------------------
\* RwLock::write granted without waiting for the guards that are alive
can_write_unguarded(l) == TRUE

\* RwLock::write is granted: no guard of either kind is alive
can_write(l) == l.writers = {} /\ l.readers = {}

\* RwLock::read granted while a write guard is alive
can_read_always(l) == TRUE

\* RwLock::read is granted: no write guard is alive
can_read(l) == l.writers = {}

acquire_write(l, t) == [l EXCEPT !.writers = @ \cup {t}]

release_write(l, t) == [l EXCEPT !.writers = @ \ {t}]

acquire_read(l, t) == [l EXCEPT !.readers = @ \cup {t}]

\* The read guard outliving the call that took it
release_read_kept(l, t) == l

release_read(l, t) == [l EXCEPT !.readers = @ \ {t}]

\* The tasks that hold a guard of the registry lock.
Holders == lock.writers \cup lock.readers

\* StateManager::update_pool behind the write guard of task t.  The guard
\* makes the registry exclusive to t; a write that shares the registry with
\* another guard is a data race on the maps, and its insert may be lost.
guarded_update_pool(m, pool_state, l, t) ==
    IF l.writers = {t} /\ l.readers = {}
    THEN {update_pool(m, pool_state)}
    ELSE {update_pool(m, pool_state), Outcome(m, update_pool(m, pool_state).res)}

\* StateManager::update_multiple_pools behind the write guard of task t
guarded_update_multiple_pools(m, pool_states, l, t) ==
    IF l.writers = {t} /\ l.readers = {}
    THEN {update_multiple_pools(m, pool_states)}
    ELSE {update_multiple_pools(m, pool_states),
          [m |-> m, res |-> "Ok", count |-> update_multiple_pools(m, pool_states).count]}

\* ------------------------------------------------------------------------
\* PoolStateFetcher::fetch_with_retry and SyncOrchestrator::sync_pool
\* ------------------------------------------------------------------------
\* Whether call number n of the client fails.
client_fails(client, n) == client.always \/ n <= client.fail_first

\* fetch_with_retry: another attempt is due, giving up one attempt early
attempts_left_early(attempts, budget) == attempts + 1 < budget

\* fetch_with_retry: another attempt is due, with one more than budgeted
attempts_left_extra(attempts, budget) == attempts <= budget

\* fetch_with_retry: another attempt is due while fewer than max_retries
\* were made; after that the call fails with a Sync error
attempts_left(attempts, budget) == attempts < budget

\* The ids sync_pool and update_pool are called with.
TaskPoolIds == PoolIds \cup {"sui2"}

\* SyncOrchestrator::sync_pool is called; fetch_with_retry starts
SyncPool ==
    /\ sp_pc = "idle"
    /\ \E pool_id \in TaskPoolIds, client \in Clients :
          /\ sp_pool' = pool_id
          /\ sp_client' = client
          /\ last' = Call("sync_pool", "none", <<pool_id>>, "Started", 0)
    /\ sp_pc' = "attempt"
    /\ sp_attempts' = 0
    /\ sp_state' = <<>>
    /\ sp_res' = "none"
    /\ UNCHANGED <<registry, clock, sync, library, health_status, max_retries, event,
                   periodic, lock>>

\* fetch_with_retry: one call of the client, or the Sync error of a spent
\* budget
FetchAttempt ==
    /\ sp_pc = "attempt"
    /\ IF ~attempts_left(sp_attempts, max_retries)
       THEN /\ sp_pc' = "done"
            /\ sp_res' = "Sync"
            /\ UNCHANGED <<sp_attempts, sp_state>>
       ELSE LET n == sp_attempts + 1
            IN  /\ sp_attempts' = n
                /\ IF client_fails(sp_client, n)
                   THEN /\ sp_pc' = "retry_delay"
                        /\ UNCHANGED sp_state
                   ELSE /\ \E t \in 0..clock : sp_state' = <<PoolState(sp_pool, t)>>
                        /\ sp_pc' = "acquire"
                /\ UNCHANGED sp_res
    /\ last' = Call("fetch_attempt", "none", <<sp_pool>>, "Ok", 0)
    /\ UNCHANGED <<registry, clock, sync, library, health_status, max_retries, sp_pool,
                   sp_client, event, periodic, lock>>

\* fetch_with_retry: the sleep of retry_delay between two attempts
RetryDelay ==
    /\ sp_pc = "retry_delay"
    /\ sp_pc' = "attempt"
    /\ last' = Call("retry_delay", "none", <<sp_pool>>, "Ok", 0)
    /\ UNCHANGED <<registry, clock, sync, library, health_status, max_retries, sp_pool,
                   sp_attempts, sp_client, sp_state, sp_res, event, periodic, lock>>

\* sync_pool: StateManager::update_pool takes the write guard
SyncPoolLock ==
    /\ sp_pc = "acquire"
    /\ can_write(lock)
    /\ lock' = acquire_write(lock, TaskId("sync_pool", 0))
    /\ sp_pc' = "locked"
    /\ last' = Call("write_lock", "none", <<sp_pool>>, "Ok", 0)
    /\ UNCHANGED <<registry, clock, sync, library, health_status, max_retries, sp_pool,
                   sp_attempts, sp_client, sp_state, sp_res, event, periodic>>

\* sync_pool: update_pool writes the state and drops the guard
SyncPoolWrite ==
    /\ sp_pc = "locked"
    /\ \E r \in guarded_update_pool(Mgr, sp_state[1], lock, TaskId("sync_pool", 0)) :
          /\ Commit(r.m)
          /\ sp_res' = r.res
    /\ lock' = release_write(lock, TaskId("sync_pool", 0))
    /\ sp_pc' = "done"
    /\ last' = Call("sync_pool_write", "none", <<sp_pool>>, sp_res', 0)
    /\ UNCHANGED <<clock, sync, library, health_status, max_retries, sp_pool, sp_attempts,
                   sp_client, sp_state, event, periodic>>

\* sync_pool returns to its caller
SyncPoolReturn ==
    /\ sp_pc = "done"
    /\ sp_pc' = "idle"
    /\ last' = Call("sync_pool", "none", <<sp_pool>>, sp_res, sp_attempts)
    /\ sp_pool' = "none"
    /\ sp_attempts' = 0
    /\ sp_client' = Reliable
    /\ sp_state' = <<>>
    /\ sp_res' = "none"
    /\ UNCHANGED <<registry, clock, sync, library, health_status, max_retries, event,
                   periodic, lock>>

\* ------------------------------------------------------------------------
\* A second task writing through StateManager::update_pool
\* ------------------------------------------------------------------------
\* StateManager::update_pool is called and waits for the write guard
EventUpdatePool ==
    /\ ev_pc = "idle"
    /\ \E pool_id \in TaskPoolIds, t \in 0..clock :
          /\ ev_state' = <<PoolState(pool_id, t)>>
          /\ last' = Call("event_update_pool", "none", <<pool_id>>, "Started", 0)
    /\ ev_pc' = "acquire"
    /\ ev_res' = "none"
    /\ UNCHANGED <<registry, clock, sync, library, health_status, retry, periodic, lock>>

\* update_pool takes the write guard
EventLock ==
    /\ ev_pc = "acquire"
    /\ can_write(lock)
    /\ lock' = acquire_write(lock, TaskId("update_pool", 0))
    /\ ev_pc' = "locked"
    /\ last' = Call("write_lock", "none", <<ev_state[1].pool_id>>, "Ok", 0)
    /\ UNCHANGED <<registry, clock, sync, library, health_status, retry, periodic,
                   ev_state, ev_res>>

\* update_pool writes the state and drops the guard
EventWrite ==
    /\ ev_pc = "locked"
    /\ \E r \in guarded_update_pool(Mgr, ev_state[1], lock, TaskId("update_pool", 0)) :
          /\ Commit(r.m)
          /\ ev_res' = r.res
    /\ lock' = release_write(lock, TaskId("update_pool", 0))
    /\ ev_pc' = "done"
    /\ last' = Call("event_write", "none", <<ev_state[1].pool_id>>, ev_res', 0)
    /\ UNCHANGED <<clock, sync, library, health_status, retry, periodic, ev_state>>

\* update_pool returns to its caller
EventReturn ==
    /\ ev_pc = "done"
    /\ ev_pc' = "idle"
    /\ last' = Call("event_update_pool", "none", <<ev_state[1].pool_id>>, ev_res, 0)
    /\ ev_state' = <<>>
    /\ ev_res' = "none"
    /\ UNCHANGED <<registry, clock, sync, library, health_status, retry, periodic, lock>>

\* ------------------------------------------------------------------------
\* Periodic sync: start, stop and the loop tasks
\* ------------------------------------------------------------------------
\* The slots whose loop task has not ended.
AliveLoops == {i \in Loops : loop_pc[i] # "none"}

\* The loop tasks inside a sync cycle: past the interval tick and not yet
\* back at the loop condition.
LoopsInCycle == {i \in Loops : loop_pc[i] \notin {"none", "check", "tick"}}

FreeSlots == Loops \ AliveLoops

LoopStep(i, pc, op) ==
    /\ loop_pc' = [loop_pc EXCEPT ![i] = pc]
    /\ last' = Call(op, "none", <<>>, "Ok", i)

\* start_periodic_sync: return if the flag is set, else set it and spawn
\* the loop task
StartPeriodicSync ==
    /\ IF is_running
       THEN /\ last' = Call("start_periodic_sync", "none", <<>>, "AlreadyRunning", 0)
            /\ UNCHANGED <<is_running, loop_pc>>
       ELSE /\ FreeSlots # {}
            /\ is_running' = TRUE
            /\ LET i == CHOOSE j \in FreeSlots : \A k \in FreeSlots : j <= k
               IN  /\ loop_pc' = [loop_pc EXCEPT ![i] = "check"]
                   /\ last' = Call("start_periodic_sync", "none", <<>>, "Ok", i)
    /\ UNCHANGED <<registry, clock, sync, library, health_status, retry, event, lock,
                   loop_targets, loop_idx, loop_fetched, loop_count>>

\* stop_periodic_sync: clear the flag
StopPeriodicSync ==
    /\ is_running' = FALSE
    /\ last' = Call("stop_periodic_sync", "none", <<>>, "Ok", 0)
    /\ UNCHANGED <<registry, clock, sync, library, health_status, retry, event, lock,
                   loop_pc, loop_targets, loop_idx, loop_fetched, loop_count>>

\* run_periodic_sync_loop: the while condition; the task ends when the flag
\* is clear
LoopCheck ==
    \E i \in Loops :
       /\ loop_pc[i] = "check"
       /\ LoopStep(i, IF is_running THEN "tick" ELSE "none", "loop_check")
       /\ UNCHANGED <<registry, clock, sync, library, health_status, retry, event, lock,
                      is_running, loop_targets, loop_idx, loop_fetched, loop_count>>

\* run_periodic_sync_loop: interval.tick() completes
LoopTick ==
    \E i \in Loops :
       /\ loop_pc[i] = "tick"
       /\ LoopStep(i, "stale", "loop_tick")
       /\ UNCHANGED <<registry, clock, sync, library, health_status, retry, event, lock,
                      is_running, loop_targets, loop_idx, loop_fetched, loop_count>>

\* get_stale_pools takes the read guard
LoopReadLock ==
    \E i \in Loops :
       /\ loop_pc[i] = "stale"
       /\ can_read(lock)
       /\ lock' = acquire_read(lock, TaskId("loop", i))
       /\ LoopStep(i, "reading", "loop_read_lock")
       /\ UNCHANGED <<registry, clock, sync, library, health_status, retry, event,
                      is_running, loop_targets, loop_idx, loop_fetched, loop_count>>

\* get_stale_pools reads the stale set and drops the guard; the loop goes on
\* to sync_pools_batch, or back to the loop condition if the set is empty
LoopGetStale ==
    \E i \in Loops :
       /\ loop_pc[i] = "reading"
       /\ \E stale_pools \in Orders(get_stale_pools(Mgr)) :
             /\ loop_targets' = [loop_targets EXCEPT ![i] = stale_pools]
             /\ LoopStep(i, IF stale_pools = <<>> THEN "check" ELSE "fetch",
                         "loop_get_stale")
       /\ lock' = release_read(lock, TaskId("loop", i))
       /\ loop_idx' = [loop_idx EXCEPT ![i] = 0]
       /\ loop_fetched' = [loop_fetched EXCEPT ![i] = <<>>]
       /\ loop_count' = [loop_count EXCEPT ![i] = 0]
       /\ UNCHANGED <<registry, clock, sync, library, health_status, retry, event, is_running>>

\* sync_pools_batch of the loop: spawn one fetch task per pool of the chunk
\* and await all
LoopFetch ==
    \E i \in Loops :
       /\ loop_pc[i] = "fetch"
       /\ LET chunk == chunks(loop_targets[i], batch_size, loop_idx[i])
          IN  \E results \in FetchResults(chunk) :
                 /\ loop_fetched' = [loop_fetched EXCEPT
                                        ![i] = collect_results(chunk, results)]
                 /\ LoopStep(i, IF loop_fetched'[i] # <<>> THEN "update" ELSE "next",
                             "loop_fetch")
       /\ UNCHANGED <<registry, clock, sync, library, health_status, retry, event, lock,
                      is_running, loop_targets, loop_idx, loop_count>>

\* update_multiple_pools of the loop takes the write guard
LoopWriteLock ==
    \E i \in Loops :
       /\ loop_pc[i] = "update"
       /\ can_write(lock)
       /\ lock' = acquire_write(lock, TaskId("loop", i))
       /\ LoopStep(i, "writing", "loop_write_lock")
       /\ UNCHANGED <<registry, clock, sync, library, health_status, retry, event,
                      is_running, loop_targets, loop_idx, loop_fetched, loop_count>>

\* update_multiple_pools of the loop writes the chunk's states and drops the
\* guard
LoopWrite ==
    \E i \in Loops :
       /\ loop_pc[i] = "writing"
       /\ \E r \in guarded_update_multiple_pools(Mgr, loop_fetched[i], lock,
                                                TaskId("loop", i)) :
             /\ Commit(r.m)
             /\ loop_count' = [loop_count EXCEPT ![i] = @ + r.count]
       /\ lock' = release_write(lock, TaskId("loop", i))
       /\ LoopStep(i, "next", "loop_write")
       /\ UNCHANGED <<clock, sync, library, health_status, retry, event, is_running,
                      loop_targets, loop_idx, loop_fetched>>

\* sync_pools_batch of the loop: sleep before the next chunk, or return
\* after the last one
LoopNext ==
    \E i \in Loops :
       /\ loop_pc[i] = "next"
       /\ LoopStep(i,
                   IF delay_due(loop_idx[i], Len(loop_targets[i]), batch_size)
                   THEN "delay"
                   ELSE "result",
                   "loop_next")
       /\ UNCHANGED <<registry, clock, sync, library, health_status, retry, event, lock,
                      is_running, loop_targets, loop_idx, loop_fetched, loop_count>>

\* sync_pools_batch of the loop: the sleep between two chunks
LoopDelay ==
    \E i \in Loops :
       /\ loop_pc[i] = "delay"
       /\ loop_idx' = [loop_idx EXCEPT ![i] = @ + 1]
       /\ LoopStep(i, "fetch", "loop_delay")
       /\ UNCHANGED <<registry, clock, sync, library, health_status, retry, event, lock,
                      is_running, loop_targets, loop_fetched, loop_count>>

\* run_periodic_sync_loop: match on the result of sync_pools_batch, which is
\* Ok(success_count); the loop goes back to its condition
LoopResult ==
    \E i \in Loops :
       /\ loop_pc[i] = "result"
       /\ health_status' = IF loop_count[i] > 0 THEN TRUE ELSE health_status
       /\ loop_targets' = [loop_targets EXCEPT ![i] = <<>>]
       /\ loop_idx' = [loop_idx EXCEPT ![i] = 0]
       /\ loop_fetched' = [loop_fetched EXCEPT ![i] = <<>>]
       /\ loop_count' = [loop_count EXCEPT ![i] = 0]
       /\ LoopStep(i, "check", "loop_result")
       /\ UNCHANGED <<registry, clock, sync, library, retry, event, lock, is_running>>

\* ------------------------------------------------------------------------
\* Specifications
\* ------------------------------------------------------------------------
\* Registration: the manager as configured, under register_dex,
\* register_pool, register_pools and single-state updates.
Init ==
    /\ InitManager
    /\ InitOrchestrator
    /\ NoCall
    /\ batch_size = 1
    /\ max_retries = MaxRetries

Next ==
    \/ RegisterDex
    \/ RegisterPool
    \/ RegisterPools
    \/ UpdatePoolState

Spec == Init /\ [][Next]_vars

\* A release build configured with max_pools_per_dex = 1.
InitSmall ==
    /\ InitManager
    /\ max_pools_per_dex = 1
    /\ overflow_checks = FALSE
    /\ InitOrchestrator
    /\ NoCall

\* Updates: the registry under registration, single-state updates and the
\* passing of time.
InitUpdate ==
    /\ InitSmall
    /\ batch_size = 1
    /\ max_retries = MaxRetries

NextUpdate ==
    \/ RegisterDex
    \/ RegisterPool
    \/ UpdatePoolState
    \/ UpdatePool
    \/ Tick

SpecUpdate == InitUpdate /\ [][NextUpdate]_vars

\* Synchronization: the registry under registration, every update entry
\* point and a foreground sync call.
InitSync ==
    /\ InitSmall
    /\ batch_size \in 1..MaxBatchSize
    /\ max_retries = MaxRetries

NextSync ==
    \/ RegisterDex
    \/ RegisterPool
    \/ UpdatePoolState
    \/ UpdatePoolStates
    \/ UpdatePool
    \/ UpdateMultiplePools
    \/ SyncAllPools
    \/ SyncStalePools
    \/ FetchChunk
    \/ UpdateChunk
    \/ InterBatchDelay
    \/ SyncReturn

SpecSync == InitSync /\ [][NextSync]_vars

\* The pool lists of the enabled Cetus entry of the configuration.
BuiltPoolLists == {<<"sui1">>, <<"sui1", "sui2">>}

\* DexManagerBuilder::register_dexes_and_pools for one enabled Cetus entry
register_dexes_and_pools(m, pool_ids) ==
    LET r == register_dex(m, "Cetus", from_config)
    IN  IF IsErr(r.res) THEN r ELSE register_pools(r.m, "Cetus", pool_ids)

\* DexManagerBuilder::build with the default ceiling, in a release build
BuiltManager ==
    /\ state_ttl = StateTtl
    /\ clock = 0
    /\ \E pool_ids \in BuiltPoolLists :
          LET r == register_dexes_and_pools(
                       [dexes |-> EmptyMap, pool_to_dex |-> EmptyMap,
                        monitored_pools |-> {}, last_sync_time |-> 0], pool_ids)
          IN  /\ r.res = "Ok"
              /\ dexes = r.m.dexes
              /\ pool_to_dex = r.m.pool_to_dex
              /\ monitored_pools = r.m.monitored_pools
              /\ last_sync_time = r.m.last_sync_time
              /\ last = Call("build", "Cetus", pool_ids, "Ok", 0)

InitBuilt ==
    /\ max_pools_per_dex = UsizeMod - 1
    /\ overflow_checks = FALSE
    /\ BuiltManager
    /\ InitOrchestrator
    /\ NoCall

\* Retries: one task calling sync_pool on the built registry, for every
\* attempt budget and every client.
InitRetry ==
    /\ InitBuilt
    /\ batch_size = 1
    /\ max_retries \in 0..MaxRetries

NextRetry ==
    \/ SyncPool
    \/ FetchAttempt
    \/ RetryDelay
    \/ SyncPoolLock
    \/ SyncPoolWrite
    \/ SyncPoolReturn

SpecRetry == InitRetry /\ [][NextRetry]_vars

\* Concurrent writers: a task calling sync_pool and a task calling
\* update_pool share the built registry while time passes.
InitTasks ==
    /\ InitBuilt
    /\ batch_size = 1
    /\ max_retries = 1

NextTasks ==
    \/ SyncPool
    \/ FetchAttempt
    \/ RetryDelay
    \/ SyncPoolLock
    \/ SyncPoolWrite
    \/ SyncPoolReturn
    \/ EventUpdatePool
    \/ EventLock
    \/ EventWrite
    \/ EventReturn
    \/ Tick

SpecTasks == InitTasks /\ [][NextTasks]_vars

\* Periodic sync: start and stop calls and the loop tasks they leave, on
\* the built registry.
InitPeriodic ==
    /\ InitBuilt
    /\ batch_size = 1
    /\ max_retries = MaxRetries

LoopActions ==
    \/ LoopCheck
    \/ LoopTick
    \/ LoopReadLock
    \/ LoopGetStale
    \/ LoopFetch
    \/ LoopWriteLock
    \/ LoopWrite
    \/ LoopNext
    \/ LoopDelay
    \/ LoopResult

NextPeriodic ==
    \/ StartPeriodicSync
    \/ StopPeriodicSync
    \/ LoopActions

SpecPeriodic == InitPeriodic /\ [][NextPeriodic]_vars

\* The steps of the loop task in slot i.
LoopTask(i) == LoopActions /\ last'.count = i

\* Periodic sync under fair scheduling: the runtime runs every loop task
\* that is ready again and again, so its interval ticks fire, its fetches
\* return and the lock, which queues its waiters, is granted to it.
SpecPeriodicFair ==
    /\ SpecPeriodic
    /\ \A i \in Loops : SF_vars(LoopTask(i))

\* Startup: the registry under registration and calls of initialize.
NextStartup ==
    \/ RegisterDex
    \/ RegisterPool
    \/ Initialize
    \/ FetchChunk
    \/ UpdateChunk
    \/ InterBatchDelay
    \/ SyncReturn

SpecStartup == InitSync /\ [][NextStartup]_vars

\* Locking: a running periodic loop next to a task calling sync_pool and a
\* task calling update_pool, on the built registry.
InitLock ==
    /\ InitBuilt
    /\ batch_size = 1
    /\ max_retries = MaxRetries - 1

NextLock ==
    \/ SyncPool
    \/ FetchAttempt
    \/ RetryDelay
    \/ SyncPoolLock
    \/ SyncPoolWrite
    \/ SyncPoolReturn
    \/ EventUpdatePool
    \/ EventLock
    \/ EventWrite
    \/ EventReturn
    \/ StartPeriodicSync
    \/ LoopActions

SpecLock == InitLock /\ [][NextLock]_vars

\* ------------------------------------------------------------------------
\* Properties
\* ------------------------------------------------------------------------
\* The stored state of a monitored pool, read through its owning adapter.
HasStoredState(p) ==
    /\ p \in DOMAIN pool_to_dex
    /\ pool_to_dex[p] \in DOMAIN dexes
    /\ p \in DOMAIN dexes[pool_to_dex[p]]

StoredTimestamp(p) == dexes[pool_to_dex[p]][p]

\* C1: in every reachable state the number of monitored pools is at most
\* max_pools_per_dex times the number of registered DEXes.
C1_PoolCeiling ==
    Cardinality(monitored_pools) <= max_pools_per_dex * Cardinality(DOMAIN dexes)

\* A registration was rejected with the monitored set exactly at the ceiling.
C1_Witness ==
    /\ last.op \in {"register_pool", "register_pools"}
    /\ last.res = "LimitReached"
    /\ monitored_pools # {}
    /\ Cardinality(monitored_pools) = max_pools_per_dex * Cardinality(DOMAIN dexes)

\* C2: pool_to_dex is defined exactly on the monitored pools, and every pool
\* is mapped to a registered DEX.
C2_PoolToDexFunction ==
    /\ DOMAIN pool_to_dex = monitored_pools
    /\ \A p \in DOMAIN pool_to_dex : pool_to_dex[p] \in DOMAIN dexes

\* Two monitored pools owned by two different DEXes.
C2_Witness ==
    \E p, q \in monitored_pools :
        /\ p # q
        /\ pool_to_dex[p] # pool_to_dex[q]

\* C3: right after register_pool(dex_id, pool_id) returned Ok, the lookup of
\* pool_id yields Some(dex_id) and pool_id is among the monitored pools.
C3_RegisterPoolLookup ==
    (last.op = "register_pool" /\ last.res = "Ok") =>
        /\ get_monitored_dex_by_pool_id(Mgr, last.pools[1]) = {last.dex}
        /\ last.pools[1] \in get_monitored_pools(Mgr)

\* register_pool returned Ok while a second DEX is registered and another
\* pool is monitored.
C3_Witness ==
    /\ last.op = "register_pool"
    /\ last.res = "Ok"
    /\ Cardinality(DOMAIN dexes) = 2
    /\ Cardinality(monitored_pools) = 2

\* C4: register_pool under a DEX that is not registered returns an error and
\* changes none of monitored_pools, pool_to_dex and dexes.
C4_UnregisteredDexFails ==
    [][(last'.op = "register_pool" /\ last'.dex \notin DOMAIN dexes) =>
          /\ IsErr(last'.res)
          /\ UNCHANGED <<monitored_pools, pool_to_dex, dexes>>]_vars

\* register_pool was rejected for an unregistered DEX while another DEX is
\* registered and below its ceiling.
C4_Witness ==
    /\ last.op = "register_pool"
    /\ last.res = "DexNotRegistered"
    /\ DOMAIN dexes # {}
    /\ Cardinality(monitored_pools) < max_pools_per_dex * Cardinality(DOMAIN dexes)

\* The position of the list at which register_pools finds the monitored set
\* at the ceiling, given the set before the call.
FailingPosition(before, ids, ceiling) ==
    CHOOSE k \in 1..Len(ids) :
        /\ Cardinality(before \cup Range(SubSeq(ids, 1, k - 1))) >= ceiling
        /\ \A j \in 1..(k - 1) :
              Cardinality(before \cup Range(SubSeq(ids, 1, j - 1))) < ceiling

\* C5: when register_pools would take the monitored set past the ceiling, it
\* returns an error at the first pool that finds the set at the ceiling; the
\* pools of the list before that one are registered and stay registered, and
\* that pool and the later ones are not registered by the call.
C5_PartialRegistration ==
    [][(/\ last'.op = "register_pools"
        /\ last'.dex \in DOMAIN dexes
        /\ Cardinality(monitored_pools \cup Range(last'.pools))
              > max_pools_per_dex * Cardinality(DOMAIN dexes))
       =>
       LET ids == last'.pools
           k == FailingPosition(monitored_pools, ids,
                                max_pools_per_dex * Cardinality(DOMAIN dexes))
           prefix == Range(SubSeq(ids, 1, k - 1))
       IN  /\ last'.res = "LimitReached"
           /\ monitored_pools' = monitored_pools \cup prefix
           /\ \A p \in prefix : pool_to_dex'[p] = last'.dex
           /\ \A i \in k..Len(ids) :
                 ids[i] \notin monitored_pools \cup prefix => ids[i] \notin monitored_pools'
           /\ \A p \in monitored_pools \ prefix : pool_to_dex'[p] = pool_to_dex[p]
      ]_vars

\* register_pools failed at the ceiling after registering its first pool,
\* with the failing pool left out and at least one more pool behind it.
C5_Witness ==
    /\ last.op = "register_pools"
    /\ last.res = "LimitReached"
    /\ Len(last.pools) = 3
    /\ last.pools[1] \in monitored_pools
    /\ pool_to_dex[last.pools[1]] = last.dex
    /\ last.pools[2] \notin monitored_pools
    /\ Cardinality(monitored_pools) = 1

\* C6: register_dex for a DexId that is already registered returns an error
\* and leaves dexes, with every adapter and every pool state, unchanged.
C6_DuplicateDexRejected ==
    [][(last'.op = "register_dex" /\ last'.dex \in DOMAIN dexes) =>
          /\ last'.res = "DexAlreadyRegistered"
          /\ dexes' = dexes]_vars

\* A duplicate register_dex was rejected while the registered adapter holds
\* a pool state, which the freshly constructed adapter does not.
C6_Witness ==
    /\ last.op = "register_dex"
    /\ last.res = "DexAlreadyRegistered"
    /\ DOMAIN dexes[last.dex] # {}

\* C7: monitored_pools and pool_to_dex change only in a successful
\* register_pool / register_pools; every update entry point and every step
\* of a sync cycle leaves them unchanged.
C7_MembershipOnlyByRegistration ==
    [][(monitored_pools' # monitored_pools \/ pool_to_dex' # pool_to_dex) =>
          /\ last'.op \in {"register_pool", "register_pools"}
          /\ last'.res # "DexNotRegistered"]_vars

\* A sync cycle wrote fetched states while some pool is still unmonitored.
C7_Witness ==
    /\ last.op = "update_chunk"
    /\ last.count > 0
    /\ monitored_pools # PoolIds

\* C8: update_pool_state for a pool that is not in pool_to_dex, or whose DEX
\* is not in dexes, returns NotFound and changes no pool state and not
\* last_sync_time.
C8_UpdateUnknownPool ==
    [][(/\ last'.op = "update_pool_state"
        /\ \/ last'.pools[1] \notin DOMAIN pool_to_dex
           \/ pool_to_dex[last'.pools[1]] \notin DOMAIN dexes)
       =>
       /\ last'.res = "NotFound"
       /\ dexes' = dexes
       /\ last_sync_time' = last_sync_time]_vars

\* update_pool_state returned NotFound at a time later than the last sync,
\* with a DEX registered.
C8_Witness ==
    /\ last.op = "update_pool_state"
    /\ last.res = "NotFound"
    /\ DOMAIN dexes # {}
    /\ last_sync_time < now

\* C9: get_stale_pools returns, among the monitored pools that have a stored
\* state, exactly those with now - block_timestamp > state_ttl.
C9_StaleByTtl ==
    \A p \in monitored_pools :
        HasStoredState(p) =>
            (p \in get_stale_pools(Mgr) <=> now - StoredTimestamp(p) > state_ttl)

\* C10: a stale-only sync started when no monitored pool is stale returns
\* Ok(0) at once, with no fetch issued.
C10_StaleSyncNoop ==
    [][(/\ sync_pc = "idle"
        /\ last'.op = "sync_stale_pools"
        /\ last'.res = "Started"
        /\ \A p \in monitored_pools :
              HasStoredState(p) /\ now - StoredTimestamp(p) <= state_ttl)
       =>
       /\ sync_pc' = "done"
       /\ success_count' = 0
       /\ fetch_calls' = 0
       /\ UNCHANGED registry]_vars

\* The task calling sync_pool is past fetch_with_retry.
FetchReturned == sp_pc \in {"acquire", "locked", "done"}

\* C11: against a client that fails its first k calls and then succeeds,
\* with k below max_retries, fetch_with_retry returns the fetched state of
\* the pool after exactly k + 1 attempts.
C11_RetryUntilSuccess ==
    (FetchReturned /\ ~sp_client.always /\ sp_client.fail_first < max_retries)
        => /\ sp_state # <<>>
           /\ sp_state[1].pool_id = sp_pool
           /\ sp_attempts = sp_client.fail_first + 1
           /\ sp_res # "Sync"

C11_Witness ==
    /\ sp_pc = "acquire"
    /\ ~sp_client.always
    /\ sp_client.fail_first = MaxRetries - 1
    /\ max_retries = MaxRetries
    /\ sp_attempts = MaxRetries
    /\ sp_state # <<>>

\* C12: against a client that always fails, fetch_with_retry ends with a
\* Sync error after exactly max_retries attempts, and never makes more.
C12_RetryExhausted ==
    /\ sp_attempts <= max_retries
    /\ (sp_client.always /\ sp_pc # "idle") => sp_pc \in {"attempt", "retry_delay", "done"}
    /\ (sp_client.always /\ sp_pc = "done")
          => /\ sp_res = "Sync"
             /\ sp_attempts = max_retries
             /\ sp_state = <<>>

C12_Witness ==
    /\ sp_pc = "done"
    /\ sp_client.always
    /\ max_retries = MaxRetries
    /\ sp_attempts = MaxRetries
    /\ sp_res = "Sync"

\* The (network, DEX) group of a monitored pool.
GroupOf(p) == <<p, pool_to_dex[p]>>

\* C13: within one sync cycle a failed fetch never keeps the other pools,
\* and so the other (network, DEX) groups, from being synchronized: every
\* state a fetch task returned is collected, every collected state is
\* written to the registry in that cycle, and the cycle ends only after a
\* fetch task ran for every target pool.
C13_GroupFailureIsolated ==
    [][/\ (last'.op = "fetch_chunk") => Len(fetched_states') = last'.count
       /\ (last'.op = "update_chunk") =>
             \A i \in DOMAIN fetched_states :
                /\ HasStoredState(fetched_states[i].pool_id)'
                /\ StoredTimestamp(fetched_states[i].pool_id)'
                       = fetched_states[i].block_timestamp
       /\ (sync_pc # "done" /\ sync_pc' = "done") =>
             fetch_calls' = Len(sync_pool_ids')]_vars

C13_Witness ==
    /\ last.op = "update_chunk"
    /\ last.count = 1
    /\ sync_pc = "done"
    /\ Len(sync_pool_ids) = 2
    /\ GroupOf(sync_pool_ids[1])[2] # GroupOf(sync_pool_ids[2])[2]
    /\ batch_idx = 1
    /\ success_count = 1
    /\ ~HasStoredState(sync_pool_ids[1])
    /\ HasStoredState(sync_pool_ids[2])

\* The stored state of pool p, as a sequence of zero or one timestamps.
Stored(p) == IF HasStoredState(p) THEN <<StoredTimestamp(p)>> ELSE <<>>

\* The write of pool_state by one task kept its own state and every other
\* pool's.
WriteKept(pool_state, res) ==
    /\ res = "Ok"
    /\ Stored(pool_state.pool_id)' = <<pool_state.block_timestamp>>
    /\ \A q \in TaskPoolIds \ {pool_state.pool_id} : Stored(q)' = Stored(q)

\* C14: of the target pools of a cycle, exactly the states the fetch
\* returned are passed to update_multiple_pools and counted, each of their
\* pools then holds the fetched state, every other pool keeps the state it
\* had, and the cycle returns the number of states fetched.
C14_CycleWritesFetched ==
    [][/\ (last'.op = "update_chunk") =>
             /\ last'.count = Len(fetched_states)
             /\ success_count' = success_count + Len(fetched_states)
             /\ \A k \in DOMAIN fetched_states :
                   Stored(fetched_states[k].pool_id)'
                       = <<fetched_states[k].block_timestamp>>
             /\ \A q \in PoolIds \ Range(PoolsOf(fetched_states)) :
                   Stored(q)' = Stored(q)
       /\ (sync_pc = "done" /\ sync_pc' = "idle") =>
             /\ last'.res = "Ok"
             /\ last'.count = fetched_ok
             /\ fetch_calls = Len(sync_pool_ids)]_vars

C14_Witness ==
    /\ last.op \in {"sync_all_pools", "sync_stale_pools"}
    /\ last.res = "Ok"
    /\ Len(last.pools) = 2
    /\ last.count = 1
    /\ \E p, q \in Range(last.pools) : Stored(p) = <<0>> /\ Stored(q) = <<>>

\* C15: two tasks that call update_pool at the same time for two different
\* monitored pools both return Ok and both states are stored, in every
\* interleaving: whichever task writes, its call returns Ok, its state is
\* stored, and the state of every other pool stays as it was.
C15_ConcurrentUpdatesKept ==
    [][/\ (last'.op = "sync_pool_write" /\ sp_pool \in monitored_pools)
             => WriteKept(sp_state[1], sp_res')
       /\ (last'.op = "event_write" /\ ev_state[1].pool_id \in monitored_pools)
             => WriteKept(ev_state[1], ev_res')]_vars

C15_Witness ==
    /\ last.op = "event_write"
    /\ ev_res = "Ok"
    /\ sp_pc = "acquire"
    /\ sp_pool = "sui1"
    /\ ev_state[1].pool_id = "sui2"
    /\ {"sui1", "sui2"} \subseteq monitored_pools
    /\ Stored("sui2") = <<ev_state[1].block_timestamp>>

\* C16: after any interleaving of start and stop calls at most one periodic
\* loop task is alive and at most one periodic sync cycle is in progress.
C16_SingleLoop ==
    /\ Cardinality(AliveLoops) <= 1
    /\ Cardinality(LoopsInCycle) <= 1

\* C17: once stop_periodic_sync has cleared the flag, no loop task starts a
\* sync cycle: the stale set is read only while the flag is set.
C17_NoCycleAfterStop ==
    [][(last'.op = "loop_get_stale") => is_running]_vars

\* C18: a loop task that is alive when stop_periodic_sync is called
\* eventually ends, also when start_periodic_sync is called again later.
C18_LoopsTerminate ==
    \A i \in Loops :
       (last.op = "stop_periodic_sync" /\ i \in AliveLoops) ~> (i \notin AliveLoops)

\* C19: when initialize returns, it returns Ok and is_healthy() is true
\* exactly if every pool it set out to sync was synced in that pass; after
\* a partial pass it is false.
C19_InitialHealth ==
    [][(last'.op = "initialize" /\ last'.res # "Started")
          => /\ last'.res = "Ok"
             /\ health_status' <=> (last'.count = Len(last'.pools))]_vars

C19_Witness ==
    /\ last.op = "initialize"
    /\ last.res = "Ok"
    /\ Len(last.pools) = 2
    /\ last.count = 1
    /\ ~health_status

\* C20: no task holds a guard of the registry lock while it is suspended
\* in a network fetch, in the delay between two retries or two chunks, or
\* in the interval wait of the periodic loop.
C20_NoLockWhileSuspended ==
    /\ sp_pc \in {"attempt", "retry_delay"} => TaskId("sync_pool", 0) \notin Holders
    /\ \A i \in Loops :
          loop_pc[i] \in {"tick", "fetch", "delay"} => TaskId("loop", i) \notin Holders

C20_Witness ==
    /\ lock.writers = {TaskId("update_pool", 0)}
    /\ sp_pc = "retry_delay"
    /\ \E i \in Loops : loop_pc[i] = "fetch" /\ loop_idx[i] = 1

\* The state in which a library function is called: its arguments are drawn
\* by the initial state of its specification and its value is not computed
\* yet.
InitPure ==
    /\ InitManager
    /\ max_pools_per_dex = 1
    /\ overflow_checks = FALSE
    /\ InitOrchestrator
    /\ batch_size = 1
    /\ max_retries = MaxRetries

Pending == [res |-> "pending"]

\* ---------------------------------------------------------------------
\* PoolParserRegistry (types/pool/pool_parser.rs)
\* ---------------------------------------------------------------------

\* The most parsers a registry holds and the most objects of one batch.
MaxParsers == 2

MaxObjects == 2

\* The object types the parsers tell apart by their substring tests.
ObjTypes == {"clmm::pool::Pool", "amm::pool::Pool"}

\* SuiObjectData, reduced to its type and to whether it carries Move fields.
Objects == [type : ObjTypes, content : {"fields", "none"}]

\* A PoolParser: its dex_id() and the types its can_parse accepts.
Parser(name, dex_id, accepts) == [name |-> name, dex_id |-> dex_id, accepts |-> accepts]

\* has_type_suffix tests containment: "clmm::pool::Pool" is contained in
\* the first type only.
CetusPoolParser == Parser("CetusPoolParser", "Cetus", {"clmm::pool::Pool"})

\* "pool::Pool" is contained in both types.
TurbosPoolParser ==
    Parser("TurbosPoolParser", "Turbos", {"clmm::pool::Pool", "amm::pool::Pool"})

\* The parser of the registry's tests: "::pool::Pool" is contained in both
\* types.
MockParserA == Parser("MockParserA", "Cetus", {"clmm::pool::Pool", "amm::pool::Pool"})

Parsers == {CetusPoolParser, TurbosPoolParser, MockParserA}

can_parse(parser, sui_object) == sui_object.type \in parser.accepts

Parsed(parser, sui_object) == [res |-> "Ok", by |-> parser.name, object |-> sui_object]

ParseErr(msg, parser) == [res |-> msg, by |-> parser.name]

\* PoolParser::parse of each implementation.  The Cetus parser fails on an
\* object without fields; the Turbos parser fails the same way and
\* otherwise stops at todo!(); the mock parser always succeeds.
parser_parse(parser, sui_object) ==
    CASE parser.name = "CetusPoolParser" ->
            IF sui_object.content = "none"
            THEN ParseErr("Missing content", parser)
            ELSE Parsed(parser, sui_object)
      [] parser.name = "TurbosPoolParser" ->
            IF sui_object.content = "none"
            THEN ParseErr("Missing content", parser)
            ELSE ParseErr("Panic", parser)
      [] OTHER -> Parsed(parser, sui_object)

NoParserFound == [res |-> "No parser found", by |-> "PoolParserRegistry"]

\* parse that returns the result of the last compatible parser.
RECURSIVE parse_last(_, _, _)
parse_last(list, sui_object, dex_id) ==
    IF list = <<>> THEN NoParserFound
    ELSE LET parser == list[Len(list)]
         IN IF parser.dex_id = dex_id /\ can_parse(parser, sui_object)
            THEN parser_parse(parser, sui_object)
            ELSE parse_last(SubSeq(list, 1, Len(list) - 1), sui_object, dex_id)

\* PoolParserRegistry::parse: the loop over self.parsers returns from the
\* first parser that matches.
RECURSIVE parse(_, _, _)
parse(list, sui_object, dex_id) ==
    IF list = <<>> THEN NoParserFound
    ELSE LET parser == Head(list)
         IN IF parser.dex_id = dex_id /\ can_parse(parser, sui_object)
            THEN parser_parse(parser, sui_object)
            ELSE parse(Tail(list), sui_object, dex_id)

BatchResult(res, states) == [res |-> res, states |-> states]

\* parse_batch that stops at the first object that fails.
RECURSIVE parse_batch_abort(_, _, _)
parse_batch_abort(list, objects, dex_id) ==
    IF objects = <<>> THEN BatchResult("Ok", <<>>)
    ELSE LET r == parse(list, Head(objects), dex_id)
         IN CASE r.res = "Panic" -> BatchResult("Panic", <<>>)
              [] r.res = "Ok" ->
                    LET rest == parse_batch_abort(list, Tail(objects), dex_id)
                    IN BatchResult(rest.res, IF rest.res = "Ok" THEN <<r>> \o rest.states ELSE <<>>)
              [] OTHER -> BatchResult("Ok", <<>>)

\* PoolParserRegistry::parse_batch: filter_map keeps the Ok results in
\* order; a panic of a parser unwinds through it.
RECURSIVE parse_batch(_, _, _)
parse_batch(list, objects, dex_id) ==
    IF objects = <<>> THEN BatchResult("Ok", <<>>)
    ELSE LET r == parse(list, Head(objects), dex_id)
             rest == parse_batch(list, Tail(objects), dex_id)
         IN CASE r.res = "Panic" -> BatchResult("Panic", <<>>)
              [] rest.res = "Panic" -> BatchResult("Panic", <<>>)
              [] r.res = "Ok" -> BatchResult("Ok", <<r>> \o rest.states)
              [] OTHER -> rest

LibraryIdle == UNCHANGED <<registry, clock, last, sync, tasks, health_status, fetch_handles>>

\* PoolParserRegistry::register
RegisterParser ==
    \E parser \in Parsers :
        /\ Len(parsers) < MaxParsers
        /\ parsers' = Append(parsers, parser)
        /\ lib_in' = [op |-> "register", parser |-> parser]
        /\ lib_out' = [res |-> "Ok"]
        /\ LibraryIdle

Parse ==
    \E sui_object \in Objects, dex_id \in DexIds :
        /\ lib_in' = [op |-> "parse", object |-> sui_object, dex_id |-> dex_id]
        /\ lib_out' = parse(parsers, sui_object, dex_id)
        /\ UNCHANGED parsers
        /\ LibraryIdle

ParseBatch ==
    \E objects \in SeqOf(Objects, MaxObjects), dex_id \in DexIds :
        /\ lib_in' = [op |-> "parse_batch", objects |-> objects, dex_id |-> dex_id]
        /\ lib_out' = parse_batch(parsers, objects, dex_id)
        /\ UNCHANGED parsers
        /\ LibraryIdle

NextParse == RegisterParser \/ Parse \/ ParseBatch

SpecParse == InitSync /\ [][NextParse]_vars

\* The parsers of the registry that match the request, by position.
Compatible(sui_object, dex_id) ==
    {i \in DOMAIN parsers : parsers[i].dex_id = dex_id /\ can_parse(parsers[i], sui_object)}

First(S) == CHOOSE i \in S : \A j \in S : i <= j

\* The objects of a batch, by position, that their parser turns into a state.
Parseable(objects, dex_id) ==
    {i \in DOMAIN objects : parse(parsers, objects[i], dex_id).res = "Ok"}

Panicking(objects, dex_id) ==
    {i \in DOMAIN objects : parse(parsers, objects[i], dex_id).res = "Panic"}

\* The positions of S in increasing order.
RECURSIVE Ascending(_)
Ascending(S) == IF S = {} THEN <<>> ELSE <<First(S)>> \o Ascending(S \ {First(S)})

C22_FirstCompatibleParser ==
    lib_in.op = "parse" =>
        LET match == Compatible(lib_in.object, lib_in.dex_id)
        IN IF match = {}
           THEN lib_out = NoParserFound
           ELSE lib_out = parser_parse(parsers[First(match)], lib_in.object)

\* Two compatible parsers disagree on the object and the first one, which
\* fails, decides.
C22_Witness ==
    /\ lib_in.op = "parse"
    /\ Cardinality(Compatible(lib_in.object, lib_in.dex_id)) = 2
    /\ lib_out.res = "Missing content"
    /\ parser_parse(parsers[2], lib_in.object).res = "Ok"

\* ---------------------------------------------------------------------
\* CetusPoolParser::extract_token_types (types/pool/cetus.rs)
\* ---------------------------------------------------------------------

\* A type string is a sequence of lexical tokens: the punctuation the
\* parser looks for, one blank, and names without punctuation.
MaxParams == 3

MaxSegments == 4

\* Names that start with "0x" and names that do not.
HexAddresses == {"0x2", "0x3"}

Addresses == HexAddresses \cup {"sui"}

\* The j-th segment of the type parameter of a token at an address.
Segment(address, j) ==
    CASE j = 1 -> address
      [] j = 2 -> IF address = "0x2" THEN "usdc" ELSE "hasui"
      [] j = 3 -> IF address = "0x2" THEN "USDC" ELSE "HASUI"
      [] OTHER -> "Extra"

Names == {Segment(a, j) : a \in Addresses, j \in 1..4}

\* A type parameter of k segments joined by "::".
Param(k, address) ==
    [i \in 1..(2 * k - 1) |-> IF i % 2 = 0 THEN "::" ELSE Segment(address, (i + 1) \div 2)]

Params == {Param(k, a) : k \in 1..MaxSegments, a \in Addresses}

\* The parameters joined by "," or ", ".
RECURSIVE Join(_, _)
Join(list, spaced) ==
    IF list = <<>> THEN <<>>
    ELSE IF Len(list) = 1 THEN Head(list)
    ELSE Head(list) \o <<",">> \o (IF spaced THEN <<" ">> ELSE <<>>) \o Join(Tail(list), spaced)

Shapes == {"generic", "plain", "unclosed", "reversed"}

TypeStr(shape, list, spaced) ==
    CASE shape = "generic" -> <<"Pool", "<">> \o Join(list, spaced) \o <<">">>
      [] shape = "plain" -> <<"Pool">> \o Join(list, spaced)
      [] shape = "unclosed" -> <<"Pool", "<">> \o Join(list, spaced)
      [] OTHER -> <<"Pool", ">">> \o Join(list, spaced) \o <<"<">>

\* str::find and str::rfind: the position of the first and of the last
\* occurrence, 0 for None.
find(str, c) ==
    IF \E i \in DOMAIN str : str[i] = c
    THEN CHOOSE i \in DOMAIN str : str[i] = c /\ \A j \in 1..(i - 1) : str[j] # c
    ELSE 0

rfind(str, c) ==
    IF \E i \in DOMAIN str : str[i] = c
    THEN CHOOSE i \in DOMAIN str : str[i] = c /\ \A j \in (i + 1)..Len(str) : str[j] # c
    ELSE 0

\* str::split
RECURSIVE split(_, _)
split(str, c) ==
    LET i == find(str, c)
    IN IF i = 0 THEN <<str>>
       ELSE <<SubSeq(str, 1, i - 1)>> \o split(SubSeq(str, i + 1, Len(str)), c)

\* str::trim
RECURSIVE trim(_)
trim(str) ==
    IF str = <<>> THEN str
    ELSE IF Head(str) = " " THEN trim(Tail(str))
    ELSE IF str[Len(str)] = " " THEN trim(SubSeq(str, 1, Len(str) - 1))
    ELSE str

\* str::starts_with("0x")
starts_with_0x(str) == str # <<>> /\ Head(str) \in HexAddresses

ParseError(msg) == [res |-> "Parse", msg |-> msg]

\* CetusPoolParser::parse_token_info
parse_token_info(token_type) ==
    LET parts == split(token_type, "::")
    IN IF Len(parts) < 3 THEN ParseError("Invalid token type format")
       ELSE LET address == trim(parts[1])
                module == trim(parts[2])
                name == trim(parts[3])
            IN IF ~starts_with_0x(address) THEN ParseError("Invalid address format")
               ELSE [res |-> "Ok", address |-> address, symbol |-> name,
                     name |-> module \o <<"::">> \o name]

\* CetusPoolParser::extract_token_types.  The slice start + 1..end panics
\* when the last '>' comes before the first '<'.
extract_token_types(type_str) ==
    LET start == find(type_str, "<")
        end == rfind(type_str, ">")
    IN IF start = 0 THEN ParseError("No type parameters found")
       ELSE IF end = 0 THEN ParseError("Unclosed type parameters")
       ELSE IF start > end THEN [res |-> "Panic", msg |-> "slice index"]
       ELSE LET params == SubSeq(type_str, start + 1, end - 1)
                pieces == split(params, ",")
                tokens == [i \in DOMAIN pieces |-> trim(pieces[i])]
            IN IF Len(tokens) # 2 THEN ParseError("Expected 2 type parameters")
               ELSE LET token_a == parse_token_info(tokens[1])
                        token_b == parse_token_info(tokens[2])
                    IN IF token_a.res # "Ok" THEN token_a
                       ELSE IF token_b.res # "Ok" THEN token_b
                       ELSE [res |-> "Ok", token_a |-> token_a, token_b |-> token_b]

InitTokens ==
    /\ InitPure
    /\ \E shape \in Shapes, list \in SeqOf(Params, MaxParams), spaced \in BOOLEAN :
          /\ spaced => shape = "generic"
          /\ lib_in = [op |-> "extract_token_types", type_str |-> TypeStr(shape, list, spaced)]
    /\ lib_out = Pending

ExtractTokenTypes ==
    /\ lib_in.op = "extract_token_types"
    /\ lib_out = Pending
    /\ lib_out' = extract_token_types(lib_in.type_str)
    /\ UNCHANGED <<lib_in, parsers>>
    /\ LibraryIdle

SpecTokens == InitTokens /\ [][ExtractTokenTypes]_vars

\* The string without its blanks.
RECURSIVE NoBlanks(_)
NoBlanks(str) ==
    IF str = <<>> THEN str
    ELSE IF Head(str) = " " THEN NoBlanks(Tail(str))
    ELSE <<Head(str)>> \o NoBlanks(Tail(str))

\* <address>::<module>::<name>
IsTokenType(str) ==
    /\ Len(str) = 5
    /\ str[1] \in HexAddresses
    /\ str[2] = "::" /\ str[4] = "::"
    /\ str[3] \in Names /\ str[5] \in Names

\* Pool<A, B> with exactly two type parameters of that form.
IsTwoTokenTypes(str) ==
    LET t == NoBlanks(str)
    IN /\ Len(t) = 14
       /\ t[1] = "Pool" /\ t[2] = "<" /\ t[8] = "," /\ t[14] = ">"
       /\ IsTokenType(SubSeq(t, 3, 7))
       /\ IsTokenType(SubSeq(t, 9, 13))

\* C23: extract_token_types succeeds exactly on the type strings with
\* exactly two comma-separated parameters of the form
\* <address>::<module>::<name>, and then yields the two names as the
\* symbols; on every other string it returns a Parse error.
C23_TokenTypesExact ==
    (lib_in.op = "extract_token_types" /\ lib_out # Pending) =>
        IF IsTwoTokenTypes(lib_in.type_str)
        THEN LET t == NoBlanks(lib_in.type_str)
             IN /\ lib_out.res = "Ok"
                /\ lib_out.token_a.symbol = <<t[7]>>
                /\ lib_out.token_b.symbol = <<t[13]>>
        ELSE lib_out.res = "Parse"

\* ---------------------------------------------------------------------
\* FieldExtractor (types/pool/extractor.rs)
\* ---------------------------------------------------------------------

\* The widths, scaled down: the largest u32, u64 and u128.
U32Max == 3

U64Max == 15

U128Max == 255

\* The longest string a field holds.
MaxDigits == 3

Digits == {"0", "1", "2", "9"}

Chars == Digits \cup {"+", "-", "a"}

digit(c) == CASE c = "0" -> 0 [] c = "1" -> 1 [] c = "2" -> 2 [] OTHER -> 9

\* SuiMoveValue: Number holds a u32.
Number(n) == [type |-> "Number", value |-> n]

String(str) == [type |-> "String", value |-> str]

Bool(b) == [type |-> "Bool", value |-> b]

MoveValues ==
    {Number(n) : n \in 0..U32Max} \cup {String(str) : str \in SeqOf(Chars, MaxDigits)}
        \cup {Bool(b) : b \in BOOLEAN}

\* The field maps of the objects read: with the field asked for, or
\* without it.
FieldMaps == {EmptyMap} \cup {Put(EmptyMap, "coin_a", v) : v \in MoveValues}

Value(n) == [res |-> "Ok", value |-> n]

\* The accumulation of from_str_radix with wrapping arithmetic.
RECURSIVE parse_digits_wrapping(_, _, _)
parse_digits_wrapping(str, result, max) ==
    IF str = <<>> THEN Value(result)
    ELSE IF Head(str) \notin Digits THEN ParseError("InvalidDigit")
    ELSE parse_digits_wrapping(Tail(str), (result * 10 + digit(Head(str))) % (max + 1), max)

\* The accumulation of from_str_radix: checked_mul by ten and checked_add
\* of each digit.
RECURSIVE parse_digits(_, _, _)
parse_digits(str, result, max) ==
    IF str = <<>> THEN Value(result)
    ELSE IF Head(str) \notin Digits THEN ParseError("InvalidDigit")
    ELSE IF result * 10 > max THEN ParseError("PosOverflow")
    ELSE IF result * 10 + digit(Head(str)) > max THEN ParseError("PosOverflow")
    ELSE parse_digits(Tail(str), result * 10 + digit(Head(str)), max)

\* str::parse of an unsigned integer: an empty string and a lone sign are
\* errors, a leading '+' is dropped, a leading '-' is an invalid digit.
parse_unsigned(str, max) ==
    IF str = <<>> THEN ParseError("Empty")
    ELSE IF Len(str) = 1 /\ Head(str) \in {"+", "-"} THEN ParseError("InvalidDigit")
    ELSE IF Head(str) = "+" THEN parse_digits(Tail(str), 0, max)
    ELSE parse_digits(str, 0, max)

\* TryFrom of the held number.
try_from(n, max) == IF n <= max THEN Value(n) ELSE ParseError("Overflow converting")

\* get_u64 and get_u128 differ in the width only.
get_unsigned(fields, field, max) ==
    IF field \notin DOMAIN fields THEN ParseError("Missing field")
    ELSE LET v == fields[field]
         IN CASE v.type = "Number" -> try_from(v.value, max)
              [] v.type = "String" ->
                    LET r == parse_unsigned(v.value, max)
                    IN IF r.res = "Ok" THEN r ELSE ParseError("Invalid string")
              [] OTHER -> ParseError("Invalid type")

get_u64(fields, field) == get_unsigned(fields, field, U64Max)

get_u128(fields, field) == get_unsigned(fields, field, U128Max)

InitFields ==
    /\ InitPure
    /\ \E fields \in FieldMaps, op \in {"get_u64", "get_u128"} :
           lib_in = [op |-> op, fields |-> fields, field |-> "coin_a"]
    /\ lib_out = Pending

GetU64 ==
    /\ lib_in.op = "get_u64"
    /\ lib_out = Pending
    /\ lib_out' = get_u64(lib_in.fields, lib_in.field)
    /\ UNCHANGED <<lib_in, parsers>>
    /\ LibraryIdle

GetU128 ==
    /\ lib_in.op = "get_u128"
    /\ lib_out = Pending
    /\ lib_out' = get_u128(lib_in.fields, lib_in.field)
    /\ UNCHANGED <<lib_in, parsers>>
    /\ LibraryIdle

SpecFields == InitFields /\ [][GetU64 \/ GetU128]_vars

\* A decimal string: digits, with or without a leading '+'.
IsDecimal(str) ==
    LET body == IF str # <<>> /\ Head(str) = "+" THEN Tail(str) ELSE str
    IN body # <<>> /\ \A i \in DOMAIN body : body[i] \in Digits

RECURSIVE Pow10(_)
Pow10(k) == IF k = 0 THEN 1 ELSE 10 * Pow10(k - 1)

RECURSIVE WeightedSum(_, _)
WeightedSum(body, i) ==
    IF i > Len(body) THEN 0
    ELSE digit(body[i]) * Pow10(Len(body) - i) + WeightedSum(body, i + 1)

\* The integer a decimal string denotes.
Denoted(str) == WeightedSum(IF Head(str) = "+" THEN Tail(str) ELSE str, 1)

\* Whether the field holds an integer, and which.
HoldsInteger(fields, field) ==
    /\ field \in DOMAIN fields
    /\ \/ fields[field].type = "Number"
       \/ fields[field].type = "String" /\ IsDecimal(fields[field].value)

HeldInteger(fields, field) ==
    IF fields[field].type = "Number" THEN fields[field].value
    ELSE Denoted(fields[field].value)

\* C24: get_u64 returns n exactly when the field exists and holds a number
\* or a decimal string that denotes n within the range of u64; a missing
\* field, another type or a larger value is a Parse error, never a default.
\* get_u128 does the same within the range of u128.
C24_StrictUnsigned ==
    (lib_in.op \in {"get_u64", "get_u128"} /\ lib_out # Pending) =>
        LET max == IF lib_in.op = "get_u64" THEN U64Max ELSE U128Max
        IN IF /\ HoldsInteger(lib_in.fields, lib_in.field)
              /\ HeldInteger(lib_in.fields, lib_in.field) <= max
           THEN lib_out = Value(HeldInteger(lib_in.fields, lib_in.field))
           ELSE lib_out.res = "Parse"

\* A decimal string that fits u128 and not u64 is refused by get_u64.
C24_Witness ==
    /\ lib_in.op = "get_u64"
    /\ HoldsInteger(lib_in.fields, lib_in.field)
    /\ lib_in.fields[lib_in.field].type = "String"
    /\ HeldInteger(lib_in.fields, lib_in.field) > U64Max
    /\ HeldInteger(lib_in.fields, lib_in.field) <= U128Max
    /\ lib_out.res = "Parse"

\* ---------------------------------------------------------------------
\* SuiRpcClient::batch_get_objects (client/sui_rpc.rs) and
\* PoolStateFetcher::fetch_batch (sync/fetcher.rs)
\* ---------------------------------------------------------------------

\* The most ids of one request.
MaxIds == 3

Networks == {"SuiTestnet", "SuiMainnet"}

\* ChainAddress::as_sui_object_id: Some for a Sui address only.
as_sui_object_id(pool_id) == IF pool_id \in {"sui1", "sui2"} THEN <<pool_id>> ELSE <<>>

ObjectIds == {"sui1", "sui2"}

\* The node behind the client: the number of the call it fails (0 for
\* none) with the error it gives, and the ids it has no data for.
Rpc(fail_at, cause, absent) == [fail_at |-> fail_at, cause |-> cause, absent |-> absent]

Rpcs ==
    {Rpc(0, "none", absent) : absent \in {{}, {"sui2"}}}
        \cup {Rpc(k, cause, {}) : k \in 1..MaxIds, cause \in {"timeout", "rate limited"}}

\* The object the node holds for an id.
ObjectOf(object_id) ==
    [type |-> "clmm::pool::Pool", content |-> "fields", object_id |-> object_id]

\* What the client does that the node and the clock can see.
RpcCall(chunk) == [ev |-> "multi_get_object_with_options", ids |-> chunk]

Sleep(ms) == [ev |-> "sleep", ms |-> ms]

PoolFetch(pool_id) == [ev |-> "fetch_pool_state", ids |-> <<pool_id>>]

Fetched(res, data, log) == [res |-> res, data |-> data, log |-> log]

\* res.data of the objects of one response, the absent ones left out.
RECURSIVE response_data(_, _)
response_data(chunk, rpc) ==
    IF chunk = <<>> THEN <<>>
    ELSE (IF Head(chunk) \in rpc.absent THEN <<>> ELSE <<ObjectOf(Head(chunk))>>)
             \o response_data(Tail(chunk), rpc)

\* The loop of batch_get_objects from chunk idx on: one call per chunk, `?`
\* on its error, and a sleep after every chunk that is full.
RECURSIVE get_chunks(_, _, _, _, _)
get_chunks(object_ids, size, delay_ms, rpc, idx) ==
    IF idx * size >= Len(object_ids) THEN Fetched("Ok", <<>>, <<>>)
    ELSE LET chunk == chunks(object_ids, size, idx)
         IN IF rpc.fail_at = idx + 1 THEN Fetched(rpc.cause, <<>>, <<RpcCall(chunk)>>)
            ELSE LET rest == get_chunks(object_ids, size, delay_ms, rpc, idx + 1)
                     pause == IF Len(chunk) = size THEN <<Sleep(delay_ms)>> ELSE <<>>
                 IN Fetched(rest.res,
                            IF rest.res = "Ok" THEN response_data(chunk, rpc) \o rest.data
                            ELSE <<>>,
                            <<RpcCall(chunk)>> \o pause \o rest.log)

\* SuiRpcClient::batch_get_objects
batch_get_objects(object_ids, size, delay_ms, rpc) ==
    get_chunks(object_ids, size, delay_ms, rpc, 0)

\* PoolStateFetcher::new registers the Cetus and then the Turbos parser.
parser_registry == <<CetusPoolParser, TurbosPoolParser>>

\* The delay fetch_sui_batch passes to the client, in milliseconds.
BatchDelayMs == 2000

RECURSIVE sui_object_ids(_)
sui_object_ids(pool_ids) ==
    IF pool_ids = <<>> THEN <<>>
    ELSE as_sui_object_id(Head(pool_ids)) \o sui_object_ids(Tail(pool_ids))

FetchedStates(res, states, log) == [res |-> res, states |-> states, log |-> log]

\* fetch_sui_batch that fetches each pool on its own when the batch fails.
fetch_sui_batch_fallback(dex_id, pool_ids, size, rpc) ==
    LET object_ids == sui_object_ids(pool_ids)
        got == batch_get_objects(object_ids, size, BatchDelayMs, rpc)
    IN IF got.res = "Ok"
       THEN LET parsed == parse_batch(parser_registry, got.data, dex_id)
            IN FetchedStates(parsed.res, parsed.states, got.log)
       ELSE LET each == [i \in DOMAIN object_ids |-> PoolFetch(object_ids[i])]
                parsed == parse_batch(parser_registry,
                                      [i \in DOMAIN object_ids |-> ObjectOf(object_ids[i])],
                                      dex_id)
            IN FetchedStates(parsed.res, parsed.states, got.log \o each)

\* PoolStateFetcher::fetch_sui_batch
fetch_sui_batch(dex_id, pool_ids, size, rpc) ==
    LET object_ids == sui_object_ids(pool_ids)
        got == batch_get_objects(object_ids, size, BatchDelayMs, rpc)
    IN IF got.res = "Ok"
       THEN LET parsed == parse_batch(parser_registry, got.data, dex_id)
            IN FetchedStates(parsed.res, parsed.states, got.log)
       ELSE FetchedStates(got.res, <<>>, got.log)

\* PoolStateFetcher::fetch_batch
fetch_batch(network, dex_id, pool_ids, size, rpc) ==
    IF network = "SuiMainnet" THEN fetch_sui_batch(dex_id, pool_ids, size, rpc)
    ELSE FetchedStates("Network not implemented", <<>>, <<>>)

InitRpc ==
    /\ InitPure
    /\ \/ \E object_ids \in SeqOf(ObjectIds, MaxIds), size \in 1..MaxBatchSize,
             delay_ms \in {0, BatchDelayMs}, rpc \in Rpcs :
               lib_in = [op |-> "batch_get_objects", object_ids |-> object_ids,
                         batch_size |-> size, delay_ms |-> delay_ms, rpc |-> rpc]
       \/ \E network \in Networks, dex_id \in DexIds, pool_ids \in SeqOf(TaskPoolIds, MaxIds),
             size \in 1..MaxBatchSize, rpc \in Rpcs :
               lib_in = [op |-> "fetch_batch", network |-> network, dex_id |-> dex_id,
                         pool_ids |-> pool_ids, batch_size |-> size, rpc |-> rpc]
    /\ lib_out = Pending

BatchGetObjects ==
    /\ lib_in.op = "batch_get_objects"
    /\ lib_out = Pending
    /\ lib_out' = batch_get_objects(lib_in.object_ids, lib_in.batch_size, lib_in.delay_ms,
                                    lib_in.rpc)
    /\ UNCHANGED <<lib_in, parsers>>
    /\ LibraryIdle

FetchBatch ==
    /\ lib_in.op = "fetch_batch"
    /\ lib_out = Pending
    /\ lib_out' = fetch_batch(lib_in.network, lib_in.dex_id, lib_in.pool_ids,
                              lib_in.batch_size, lib_in.rpc)
    /\ UNCHANGED <<lib_in, parsers>>
    /\ LibraryIdle

SpecRpc == InitRpc /\ [][BatchGetObjects \/ FetchBatch]_vars

\* The least number of chunks of b ids that hold n ids.
CeilDiv(n, b) == CHOOSE k \in 0..n : k * b >= n /\ (k = 0 \/ (k - 1) * b < n)

\* The Sui ids among the pool ids, by position.
SuiPositions(pool_ids) == {i \in DOMAIN pool_ids : as_sui_object_id(pool_ids[i]) # <<>>}

\* Whether one of the calls the batch needs is one the node fails.
BatchFails(n, b, rpc) == rpc.fail_at \in 1..CeilDiv(n, b)

C29_SleepBetweenCalls ==
    (lib_in.op = "batch_get_objects" /\ lib_out # Pending /\ lib_in.rpc.fail_at = 0) =>
        LET n == Len(lib_in.object_ids)
            k == CeilDiv(n, lib_in.batch_size)
            log == lib_out.log
        IN /\ lib_out.res = "Ok"
           /\ n = 0 => log = <<>> /\ lib_out.data = <<>>
           /\ n > 0 => Len(log) = 2 * k - 1
           /\ \A i \in DOMAIN log :
                  IF i % 2 = 1
                  THEN log[i] = RpcCall(chunks(lib_in.object_ids, lib_in.batch_size, (i - 1) \div 2))
                  ELSE log[i] = Sleep(lib_in.delay_ms)

\* ---------------------------------------------------------------------
\* sync_pools_batch with its fetch tasks one by one (sync/synchronizer.rs)
\* ---------------------------------------------------------------------

\* The chunk sizes of the configuration: small ones and the largest usize.
BatchSizes == (1..MaxBatchSize) \cup {UsizeMod - 1}

InitChunk ==
    /\ max_pools_per_dex = UsizeMod - 1
    /\ overflow_checks \in BOOLEAN
    /\ BuiltManager
    /\ InitOrchestrator
    /\ NoCall
    /\ batch_size \in BatchSizes
    /\ max_retries = MaxRetries

NextChunk ==
    \/ SyncAllPools
    \/ SpawnFetches
    \/ FetchTaskDone
    \/ CollectResults
    \/ ChunkPanic
    \/ UpdateChunk
    \/ InterBatchDelay
    \/ SyncReturn
    \/ Tick

SpecChunk == InitChunk /\ [][NextChunk]_vars

SyncKinds == {"sync_all_pools", "sync_stale_pools", "initialize"}

\* C26: sync_pools_batch never returns Err: the failure of a fetch, of a
\* task or of a registry update is left out of the count, and the count
\* returned never exceeds the number of target pools.
C26_BatchNeverErr ==
    /\ (last.op \in SyncKinds /\ last.res # "Started") =>
           /\ last.res = "Ok"
           /\ last.count <= Len(last.pools)
    /\ sync_pc = "done" =>
           /\ success_count <= fetched_ok
           /\ fetched_ok <= Len(sync_pool_ids)

\* A cycle over two pools returned Ok(1).
C26_Witness ==
    /\ last.op = "sync_all_pools"
    /\ last.res = "Ok"
    /\ Len(last.pools) = 2
    /\ last.count = 1

\* C27: update_multiple_pools is called for a chunk only after every fetch
\* task of the chunk has returned, and with the states those tasks returned.
C27_UpdateAfterAllFetches ==
    [][last'.op = "update_chunk" =>
          /\ \A i \in DOMAIN fetch_handles : fetch_handles[i] # InFlight
          /\ fetched_states =
                 collect_results(chunks(sync_pool_ids, batch_size, batch_idx), fetch_handles)]_vars

\* Two fetch tasks of one chunk were in flight, the second returned first,
\* and the chunk has been written.
C27_Witness ==
    /\ last.op = "update_chunk"
    /\ Len(fetch_handles) = 2
    /\ last.count = 1
    /\ fetch_handles[1] = FetchErr

\* C28: in a call over n pools with chunk size b the sleep between chunks
\* happens exactly ceil(n/b) - 1 times, and never after the final chunk.
C28_DelaysBetweenChunks ==
    /\ sync_pc = "delay" => has_next_chunk(batch_idx, Len(sync_pool_ids), batch_size)
    /\ (sync_pc = "done" /\ sync_pool_ids # <<>>) =>
           delay_count = CeilDiv(Len(sync_pool_ids), batch_size) - 1

\* The pool ids for which some adapter holds a state.
StoredPools == UNION {DOMAIN dexes[d] : d \in DOMAIN dexes}

network(pool_id) ==
    IF pool_id \in {"sui1", "sui2"} THEN "SuiMainnet" ELSE "AptosMainnet"

\* result.entry(network).or_default().entry(dex_id).or_default().push(pool_id)
entry_push(result, net, dex_id, pool_id) ==
    LET by_dex == IF net \in DOMAIN result THEN result[net] ELSE EmptyMap
        list == IF dex_id \in DOMAIN by_dex THEN by_dex[dex_id] ELSE <<>>
    IN  Put(result, net, Put(by_dex, dex_id, Append(list, pool_id)))

\* The loop of a grouping that files every pool id under one network.
RECURSIVE group_each_one_network(_, _, _, _)
group_each_one_network(m, pool_ids, result, net) ==
    IF pool_ids = <<>>
    THEN result
    ELSE LET pool_id == Head(pool_ids)
             owner == get_monitored_dex_by_pool_id(m, pool_id)
         IN  IF owner = {}
             THEN group_each_one_network(m, Tail(pool_ids), result, net)
             ELSE group_each_one_network(m, Tail(pool_ids),
                      entry_push(result, net, CHOOSE dex_id \in owner : TRUE, pool_id),
                      net)

\* The loop of group_pools_by_network_and_dex over the pool ids in order.
RECURSIVE group_each(_, _, _)
group_each(m, pool_ids, result) ==
    IF pool_ids = <<>>
    THEN result
    ELSE LET pool_id == Head(pool_ids)
             owner == get_monitored_dex_by_pool_id(m, pool_id)
         IN  IF owner = {}
             THEN group_each(m, Tail(pool_ids), result)
             ELSE group_each(m, Tail(pool_ids),
                      entry_push(result, network(pool_id),
                                 CHOOSE dex_id \in owner : TRUE, pool_id))

\* The grouping with the network of the first pool id taken for the whole
\* call.
group_pools_by_first_network(m, pool_ids) ==
    IF pool_ids = <<>>
    THEN EmptyMap
    ELSE group_each_one_network(m, pool_ids, EmptyMap, network(Head(pool_ids)))

\* StateManager::group_pools_by_network_and_dex, under the read lock
group_pools_by_network_and_dex(m, pool_ids) == group_each(m, pool_ids, EmptyMap)

GroupPools ==
    /\ \E pool_ids \in SeqOf(PoolIds, MaxListLen) :
          /\ lib_in' = [op |-> "group_pools_by_network_and_dex", pool_ids |-> pool_ids]
          /\ lib_out' = [res |-> "Ok",
                         groups |-> group_pools_by_network_and_dex(Mgr, pool_ids)]
          /\ last' = Call("group_pools_by_network_and_dex", "none", pool_ids, "Ok", 0)
    /\ UNCHANGED <<registry, clock, sync, tasks, health_status, fetch_handles, parsers>>

\* Grouping: the registry under registration and calls of the grouping
\* helper.
NextGroup ==
    \/ RegisterDex
    \/ RegisterPool
    \/ GroupPools

SpecGroup == InitUpdate /\ [][NextGroup]_vars

\* The pool ids of the group keyed (net, dex_id), none if there is no such
\* group.
GroupMembers(groups, net, dex_id) ==
    IF net \in DOMAIN groups /\ dex_id \in DOMAIN groups[net]
    THEN Range(groups[net][dex_id])
    ELSE {}

\* C31: group_pools_by_network_and_dex(pool_ids) puts every input pool id
\* that has an owning DEX in the group keyed (network of the pool id,
\* pool_to_dex of the pool id) and in no other group; an input pool id
\* without an owning DEX is in no group; no group holds a pool id that was
\* not in the input.
C31_GroupsByNetworkAndDex ==
    last.op = "group_pools_by_network_and_dex" =>
        \A pool_id \in PoolIds \cup Range(lib_in.pool_ids) :
            \A net \in {"SuiMainnet", "SuiTestnet", "AptosMainnet"}, dex_id \in DexIds :
                pool_id \in GroupMembers(lib_out.groups, net, dex_id)
                    <=> /\ pool_id \in Range(lib_in.pool_ids)
                        /\ pool_id \in DOMAIN pool_to_dex
                        /\ net = network(pool_id)
                        /\ dex_id = pool_to_dex[pool_id]

\* A call whose input holds a Sui pool and an Aptos pool owned by different
\* DEXes and gives two groups.
C31_Witness ==
    /\ last.op = "group_pools_by_network_and_dex"
    /\ Range(lib_in.pool_ids) = {"sui1", "aptos1"}
    /\ DOMAIN pool_to_dex = {"sui1", "aptos1"}
    /\ pool_to_dex["sui1"] # pool_to_dex["aptos1"]
    /\ DOMAIN lib_out.groups = {"SuiMainnet", "AptosMainnet"}

\* ---------------------------------------------------------------------
\* DexId (types/common.rs)
\* ---------------------------------------------------------------------
\* DexId::all
all == {"Cetus", "Turbos", "Kriya"}

\* The letters, lower case and upper case, in alphabetical order.
LowerCase == <<"a", "b", "c", "d", "e", "f", "g", "h", "i", "j", "k", "l", "m",
               "n", "o", "p", "q", "r", "s", "t", "u", "v", "w", "x", "y", "z">>

UpperCase == <<"A", "B", "C", "D", "E", "F", "G", "H", "I", "J", "K", "L", "M",
               "N", "O", "P", "Q", "R", "S", "T", "U", "V", "W", "X", "Y", "Z">>

\* DexId::name, as a string of characters
name(dex_id) ==
    CASE dex_id = "Cetus" -> <<"C", "e", "t", "u", "s">>
      [] dex_id = "Turbos" -> <<"T", "u", "r", "b", "o", "s">>
      [] OTHER -> <<"K", "r", "i", "y", "a">>

\* char::to_lowercase and char::to_uppercase
lower(c) ==
    IF \E i \in DOMAIN UpperCase : UpperCase[i] = c
    THEN LowerCase[CHOOSE i \in DOMAIN UpperCase : UpperCase[i] = c]
    ELSE c

upper(c) ==
    IF \E i \in DOMAIN LowerCase : LowerCase[i] = c
    THEN UpperCase[CHOOSE i \in DOMAIN LowerCase : LowerCase[i] = c]
    ELSE c

\* str::to_lowercase
to_lowercase(s) == [i \in DOMAIN s |-> lower(s[i])]

\* DexId::from_str
from_str(s) ==
    IF to_lowercase(s) = <<"c", "e", "t", "u", "s">>
    THEN [res |-> "Ok", dex_id |-> "Cetus"]
    ELSE [res |-> "Err", msg |-> <<"Unknown DEX: ">> \o s]

\* The string s with the letters at the positions in caps in upper case and
\* the others in lower case.
Cased(s, caps) == [i \in DOMAIN s |-> IF i \in caps THEN upper(s[i]) ELSE lower(s[i])]

\* Strings that name no variant: the empty string, a name cut short, a name
\* with a blank or another letter after it, and the name of another DEX.
Unnamed(dex_id) ==
    {<<>>, SubSeq(name(dex_id), 1, Len(name(dex_id)) - 1),
     name(dex_id) \o <<" ">>, <<" ">> \o name(dex_id), name(dex_id) \o <<"s">>,
     <<"F", "l", "o", "w", "X">>}

InitDexId ==
    /\ InitPure
    /\ \E dex_id \in all :
          \/ \E caps \in SUBSET (DOMAIN name(dex_id)) :
                lib_in = [op |-> "from_str", s |-> Cased(name(dex_id), caps)]
          \/ \E s \in Unnamed(dex_id) : lib_in = [op |-> "from_str", s |-> s]
    /\ lib_out = Pending

FromStr ==
    /\ lib_in.op = "from_str"
    /\ lib_out = Pending
    /\ lib_out' = from_str(lib_in.s)
    /\ UNCHANGED <<lib_in, parsers>>
    /\ LibraryIdle

SpecDexId == InitDexId /\ [][FromStr]_vars

\* s is name(dex_id) up to the case of its letters.
IsCaseVariation(s, dex_id) ==
    /\ Len(s) = Len(name(dex_id))
    /\ \A i \in DOMAIN s : s[i] \in {lower(name(dex_id)[i]), upper(name(dex_id)[i])}

\* C32: for every DexId variant d and every upper/lower-case variation s of
\* d.name(), from_str(s) is Ok(d); from_str of a string that names no
\* variant is Err.
C32_FromStrCaseInsensitive ==
    (lib_in.op = "from_str" /\ lib_out # Pending) =>
        /\ \A dex_id \in all :
              IsCaseVariation(lib_in.s, dex_id) =>
                  lib_out = [res |-> "Ok", dex_id |-> dex_id]
        /\ (\A dex_id \in all : ~IsCaseVariation(lib_in.s, dex_id)) =>
              lib_out.res = "Err"

\* ---------------------------------------------------------------------
\* TokenInfo (types/common.rs)
\* ---------------------------------------------------------------------
\* The u64 of TokenInfo is scaled down to the values 0..U64Max, and the
\* Decimal of rust_decimal (a 96-bit mantissa with a scale of 0..28 decimal
\* places) to a mantissa of 0..MantissaMax with a scale of 0..MaxScale.
MantissaMax == 63

MaxScale == 1

\* Largest value of TokenInfo.decimals.
MaxDecimals == 4

Decimal(num, scale) == [num |-> num, scale |-> scale]

\* The Decimals that stand for the quotient n / d: the exact one of the
\* least scale if one fits, else the two neighbours at the largest scale
\* that fits (whichever the rounding gives), none if the integer part
\* overflows the mantissa.
Quotients(n, d) ==
    LET Fits(s) == (n * Pow10(s)) \div d <= MantissaMax
        Exact(s) == (n * Pow10(s)) % d = 0
        exact == {s \in 0..MaxScale : Exact(s) /\ Fits(s)}
        fits == {s \in 0..MaxScale : Fits(s)}
    IN  IF exact # {}
        THEN LET s == CHOOSE s \in exact : \A t \in exact : s <= t
             IN  {Decimal((n * Pow10(s)) \div d, s)}
        ELSE IF fits = {}
        THEN {}
        ELSE LET s == CHOOSE s \in fits : \A t \in fits : t <= s
                 q == (n * Pow10(s)) \div d
             IN  {Decimal(q, s), Decimal(q + 1, s)}

Panicked(msg) == [res |-> "Panic", msg |-> msg]

\* 10u64.pow(self.decimals as u32): a panic on overflow in a build with
\* overflow checks, the wrapped power otherwise.
pow(exp) ==
    IF Pow10(exp) > U64Max /\ overflow_checks
    THEN Panicked("attempt to multiply with overflow")
    ELSE [res |-> "Ok", value |-> Pow10(exp) % (U64Max + 1)]

\* Decimal / Decimal, which panics on a zero divisor
div(a, b) ==
    IF b.num = 0
    THEN {Panicked("Division by zero")}
    ELSE LET q == Quotients(a.num * Pow10(b.scale), b.num * Pow10(a.scale))
         IN  IF q = {} THEN {Panicked("Division overflowed")}
             ELSE {[res |-> "Decimal", value |-> v] : v \in q}

\* Decimal * Decimal, which panics when the product does not fit
mul(a, b) ==
    LET q == Quotients(a.num * b.num, Pow10(a.scale + b.scale))
    IN  IF q = {} THEN {Panicked("Multiplication overflowed")}
        ELSE {[res |-> "Decimal", value |-> v] : v \in q}

\* ToPrimitive::to_u64: the integer part, None (<<>>) when it is no u64
to_u64(a) ==
    LET n == a.num \div Pow10(a.scale)
    IN  IF n > U64Max THEN <<>> ELSE <<n>>

\* Option::unwrap_or
unwrap_or(opt, default) == IF opt = <<>> THEN default ELSE opt[1]

\* TokenInfo::to_decimal: the outcomes of the call
to_decimal(decimals, raw_amount) ==
    LET p == pow(decimals)
    IN  IF p.res = "Panic" THEN {p}
        ELSE div(Decimal(raw_amount, 0), Decimal(p.value, 0))

\* TokenInfo::to_raw: the outcomes of the call
to_raw(decimals, decimal_amount) ==
    LET p == pow(decimals)
    IN  IF p.res = "Panic" THEN {p}
        ELSE {IF r.res = "Panic" THEN r
              ELSE [res |-> "Raw", value |-> unwrap_or(to_u64(r.value), 0)] :
                  r \in mul(decimal_amount, Decimal(p.value, 0))}

InitDecimal ==
    /\ InitManager
    /\ max_pools_per_dex = 1
    /\ InitOrchestrator
    /\ batch_size = 1
    /\ max_retries = MaxRetries
    /\ \E decimals \in 0..MaxDecimals, raw_amount \in 0..U64Max :
          lib_in = [op |-> "to_decimal", decimals |-> decimals, raw_amount |-> raw_amount]
    /\ lib_out = Pending

ToDecimal ==
    /\ lib_in.op = "to_decimal"
    /\ lib_out = Pending
    /\ lib_out' \in to_decimal(lib_in.decimals, lib_in.raw_amount)
    /\ UNCHANGED <<lib_in, parsers>>
    /\ LibraryIdle

ToRaw ==
    /\ lib_in.op = "to_decimal"
    /\ lib_out.res = "Decimal"
    /\ lib_out' \in to_raw(lib_in.decimals, lib_out.value)
    /\ UNCHANGED <<lib_in, parsers>>
    /\ LibraryIdle

NextDecimal == ToDecimal \/ ToRaw

SpecDecimal == InitDecimal /\ [][NextDecimal]_vars

\* C33: for every decimals d and every raw amount x, to_raw(to_decimal(x))
\* is x: neither conversion panics, and the raw amount that comes back is
\* the one that went in.
C33_RawDecimalRoundTrip ==
    /\ lib_out.res # "Panic"
    /\ lib_out.res = "Raw" => lib_out.value = lib_in.raw_amount

\* ---------------------------------------------------------------------
\* Registry invariants
\* ---------------------------------------------------------------------
\* The monitored pools pool_to_dex maps to a DEX.
OwnedPools(dex_id) == {p \in DOMAIN pool_to_dex : pool_to_dex[p] = dex_id}

\* C34: in every reachable state no registered DEX owns more than
\* max_pools_per_dex monitored pools.
C34_PerDexLimit ==
    \A dex_id \in DOMAIN dexes : Cardinality(OwnedPools(dex_id)) <= max_pools_per_dex

\* C35: for every pool the block_timestamp of its stored state never
\* decreases from one registry write to the next, in every interleaving of
\* the sync tasks and an external update_pool caller that write the same
\* pool: an older fetched state never overwrites a newer one.
C35_TimestampsNeverDecrease ==
    [][\A p \in TaskPoolIds :
          (Stored(p) # <<>> /\ Stored(p)' # <<>>) => Stored(p)'[1] >= Stored(p)[1]]_vars

\* The adapters that hold a stored state for a pool id.
StateHolders(pool_id) == {dex_id \in DOMAIN dexes : pool_id \in DOMAIN dexes[dex_id]}

\* C36: for every pool id at most one adapter holds a stored state, and
\* that adapter is the one pool_to_dex maps the pool id to, after any
\* sequence of registrations and updates; so the states of all adapters
\* together hold no pool id twice.
C36_SingleStateHolder ==
    \A pool_id \in StoredPools :
        /\ Cardinality(StateHolders(pool_id)) <= 1
        /\ pool_id \in DOMAIN pool_to_dex
        /\ StateHolders(pool_id) = {pool_to_dex[pool_id]}

\* ---------------------------------------------------------------------
\* The health flag across startup and the periodic loop
\* ---------------------------------------------------------------------
\* main: the initial synchronization runs before anything else is started.
InitializeAtStartup == ~is_running /\ Initialize

\* The periodic loop is started once no foreground call is in progress.
StartAfterInitialize == sync_pc = "idle" /\ StartPeriodicSync

\* Health: initialize on the built registry, then the periodic loop.
NextHealth ==
    \/ InitializeAtStartup
    \/ FetchChunk
    \/ UpdateChunk
    \/ InterBatchDelay
    \/ SyncReturn
    \/ StartAfterInitialize
    \/ LoopActions

SpecHealth == InitPeriodic /\ [][NextHealth]_vars

\* C37: once the health flag is false it becomes true again only at the
\* end of a sync cycle that updated every pool it targeted; a periodic
\* cycle that updated only some of its targets leaves the flag false.
C37_HealthNeedsFullCycle ==
    [][(~health_status /\ health_status') =>
          \/ /\ last'.op = "initialize"
             /\ success_count = Len(sync_pool_ids)
          \/ /\ last'.op = "loop_result"
             /\ loop_count[last'.count] = Len(loop_targets[last'.count])]_vars

\* ---------------------------------------------------------------------
\* StateManager::update_multiple_pools, one state at a time
\* ---------------------------------------------------------------------
\* Longest state list of one update_multiple_pools call.
MaxBatchStates == 2

\* The task that calls update_multiple_pools.
BatchWriter == TaskId("update_multiple_pools", 0)

\* The frame of the call: its argument, where it stands, the position of
\* its loop and its success_count.
Frame(pool_states, pc, idx, count) ==
    [op |-> "update_multiple_pools", pool_states |-> pool_states, pc |-> pc,
     idx |-> idx, success_count |-> count]

\* update_multiple_pools is called and waits for the write guard
UpdateMultipleCall ==
    /\ IF lib_in.op = "none" THEN TRUE ELSE lib_in.pc = "returned"
    /\ \E pool_states \in SeqOf({PoolState(p, t) : p \in TaskPoolIds, t \in 0..clock},
                                MaxBatchStates) :
          /\ lib_in' = Frame(pool_states, "acquire", 1, 0)
          /\ last' = Call("update_multiple_pools", "none", PoolsOf(pool_states), "Started", 0)
    /\ lib_out' = Pending
    /\ UNCHANGED <<registry, clock, sync, tasks, health_status, fetch_handles, parsers>>

\* self.dex_manager.write().await is granted
UpdateMultipleLock ==
    /\ lib_in.op = "update_multiple_pools"
    /\ lib_in.pc = "acquire"
    /\ can_write(lock)
    /\ lock' = acquire_write(lock, BatchWriter)
    /\ lib_in' = [lib_in EXCEPT !.pc = "locked"]
    /\ last' = Call("write_lock", "none", PoolsOf(lib_in.pool_states), "Ok", 0)
    /\ UNCHANGED <<registry, clock, sync, health_status, retry, event, periodic,
                   fetch_handles, parsers, lib_out>>

\* One turn of the loop: manager.update_pool_state(pool_state).await, counted
\* on Ok and skipped on Err
UpdateMultipleStep ==
    /\ lib_in.op = "update_multiple_pools"
    /\ lib_in.pc = "locked"
    /\ lib_in.idx <= Len(lib_in.pool_states)
    /\ \E r \in guarded_update_pool(Mgr, lib_in.pool_states[lib_in.idx], lock, BatchWriter) :
          /\ Commit(r.m)
          /\ lib_in' = [lib_in EXCEPT !.idx = @ + 1,
                                      !.success_count = IF r.res = "Ok" THEN @ + 1 ELSE @]
          /\ last' = Call("update_multiple_step", "none",
                          <<lib_in.pool_states[lib_in.idx].pool_id>>, r.res, 0)
    /\ UNCHANGED <<clock, sync, tasks, health_status, fetch_handles, parsers, lib_out>>

\* The loop is over: Ok(success_count) is returned and the guard dropped
UpdateMultipleReturn ==
    /\ lib_in.op = "update_multiple_pools"
    /\ lib_in.pc = "locked"
    /\ lib_in.idx > Len(lib_in.pool_states)
    /\ lock' = release_write(lock, BatchWriter)
    /\ lib_in' = [lib_in EXCEPT !.pc = "returned"]
    /\ lib_out' = [res |-> "Ok", count |-> lib_in.success_count]
    /\ last' = Call("update_multiple_pools", "none", PoolsOf(lib_in.pool_states), "Ok",
                    lib_in.success_count)
    /\ UNCHANGED <<registry, clock, sync, health_status, retry, event, periodic,
                   fetch_handles, parsers>>

\* Batch writes next to readers: a task calling update_multiple_pools while
\* the periodic loop reads and writes the built registry.
NextBatch ==
    \/ UpdateMultipleCall
    \/ UpdateMultipleLock
    \/ UpdateMultipleStep
    \/ UpdateMultipleReturn
    \/ StartPeriodicSync
    \/ LoopActions

SpecBatch == InitPeriodic /\ [][NextBatch]_vars

\* The number of states of the list update_multiple_pools will apply: those
\* of a monitored pool.
WillApply(pool_states) ==
    Cardinality({i \in DOMAIN pool_states : pool_states[i].pool_id \in monitored_pools})

\* C38: a task that holds the read guard of the registry never sees a
\* partly applied update_multiple_pools call: of the states the call will
\* apply, either none or all have been applied when the registry is read.
C38_NoPartialBatchRead ==
    (lock.readers # {} /\ lib_in.op = "update_multiple_pools" /\ lib_in.pc = "locked") =>
        lib_in.success_count \in {0, WillApply(lib_in.pool_states)}

\* A loop task holds the read guard right after a call applied both of its
\* states, and reads them.
C38_Witness ==
    /\ lock.readers # {}
    /\ lib_in.op = "update_multiple_pools"
    /\ lib_in.pc = "returned"
    /\ lib_out.count = 2
    /\ StoredPools = {"sui1", "sui2"}

\* C39: register_pool(d, p) for a pair (d, p) that is already registered
\* returns Ok and leaves monitored_pools and pool_to_dex as they were, in
\* every state, the one with the monitored set at its ceiling included.
C39_RegisterPoolIdempotent ==
    [][(/\ last'.op = "register_pool"
        /\ last'.pools[1] \in monitored_pools
        /\ pool_to_dex[last'.pools[1]] = last'.dex
        /\ last'.dex \in DOMAIN dexes)
          => /\ last'.res = "Ok"
             /\ monitored_pools' = monitored_pools
             /\ pool_to_dex' = pool_to_dex]_vars

\* C40: the ceiling product max_pools_per_dex * |dexes| that register_pool
\* computes never overflows the machine word, the default max_pools_per_dex
\* (the largest word) with two or more registered DEXes included; and under
\* the default configuration no register_pool for a registered DEX is
\* rejected by the ceiling.
C40_CeilingNeverOverflows ==
    (last.op = "register_pool" /\ last.dex \in DOMAIN dexes) =>
        /\ max_pools_per_dex * Cardinality(DOMAIN dexes) < UsizeMod
        /\ max_pools_per_dex = UsizeMod - 1 => last.res = "Ok"

====
